---- MODULE Spec2Model ----
(***************************************************************************)
(* A model of the time-series construction and anomaly-correction engine   *)
(* of scfunding: record validation (models.py), chronology repair          *)
(* (loader.py), series construction and resampling (time_series.py) and    *)
(* the merge of the three sources (combined_signals.py).                   *)
(*                                                                         *)
(* Conventions.  Rows of a pandas DataFrame are the elements of a          *)
(* sequence; pandas positions 0..n-1 are the TLA+ positions 1..n, so every *)
(* DIFFERENCE of two positions is the one the code computes.  An optional  *)
(* Python value is [some |-> BOOLEAN, v |-> Int] (None is some = FALSE).   *)
(* A float is held exactly, as an integer number of hundredths.            *)
(***************************************************************************)
EXTENDS Integers, Sequences, FiniteSets, TLC

\* ------------------------------------------------------------------------
\* Generic helpers
\* ------------------------------------------------------------------------

Range(s) == {s[i] : i \in 1..Len(s)}

Min(S) == CHOOSE x \in S : \A y \in S : x <= y

Max(S) == CHOOSE x \in S : \A y \in S : x >= y

RECURSIVE SortedSeq(_)
\* The elements of a finite set of integers, ascending.
SortedSeq(S) == IF S = {} THEN <<>> ELSE <<Min(S)>> \o SortedSeq(S \ {Min(S)})

\* ------------------------------------------------------------------------
\* Raw cells of a CSV row, as pandas hands them to pydantic
\* ------------------------------------------------------------------------

\* The column is not in the frame at all: the key is absent from **row.
Missing == [k |-> "missing", v |-> 0, s |-> <<>>]

PyNone == [k |-> "none", v |-> 0, s |-> <<>>]

\* float('nan'): what read_csv gives for an empty cell.
NaN == [k |-> "nan", v |-> 0, s |-> <<>>]

\* A number (int or float cell) of value n.
Num(n) == [k |-> "num", v |-> n, s |-> <<>>]

\* A string cell, one character per element.
Str(s) == [k |-> "str", v |-> 0, s |-> s]

None == [some |-> FALSE, v |-> 0]

Some(x) == [some |-> TRUE, v |-> x]

\* Hundredths per unit: how a float is held.
Cents == 100

DigitChars == <<"0", "1", "2", "3", "4", "5", "6", "7", "8", "9">>

Digits == Range(DigitChars)

DigitVal(c) == (CHOOSE i \in 1..Len(DigitChars) : DigitChars[i] = c) - 1

\* str.replace(c, ''): every occurrence of c removed.
RECURSIVE Remove(_, _)
Remove(s, c) ==
    IF s = <<>> THEN <<>>
    ELSE (IF Head(s) = c THEN <<>> ELSE <<Head(s)>>) \o Remove(Tail(s), c)

\* str.replace(c, d).
Replace(s, c, d) == [i \in 1..Len(s) |-> IF s[i] = c THEN d ELSE s[i]]

DotPositions(s) == {i \in 1..Len(s) : s[i] = "."}

\* What float(s) accepts over the characters the model writes: digits with
\* at most one point and at least one digit.  float('') is a ValueError.
IsFloatLiteral(s) ==
    /\ \A i \in 1..Len(s) : s[i] \in Digits \cup {"."}
    /\ Cardinality(DotPositions(s)) <= 1
    /\ \E i \in 1..Len(s) : s[i] \in Digits

RECURSIVE DigitsValue(_)
DigitsValue(s) ==
    IF s = <<>> THEN 0
    ELSE DigitsValue(SubSeq(s, 1, Len(s) - 1)) * 10 + DigitVal(s[Len(s)])

\* float(s) in hundredths (the model's strings carry at most two decimals).
FloatOfLiteral(s) ==
    LET dot  == IF DotPositions(s) = {} THEN Len(s) + 1 ELSE Min(DotPositions(s))
        frac == SubSeq(s, dot + 1, Len(s))
        f1   == IF Len(frac) >= 1 THEN DigitVal(frac[1]) ELSE 0
        f2   == IF Len(frac) >= 2 THEN DigitVal(frac[2]) ELSE 0
    IN  DigitsValue(SubSeq(s, 1, dot - 1)) * Cents + f1 * 10 + f2

\* int(x) of a float held in hundredths: truncation towards zero.
IntOfFloat(c) == IF c >= 0 THEN c \div Cents ELSE -((-c) \div Cents)

\* bool(x) of a raw cell, as `a or b` tests it; values.get of an absent key
\* is None.  float('nan') is truthy, 0 and '' are falsy.
Truthy(c) ==
    CASE c.k = "missing" -> FALSE
      [] c.k = "none"    -> FALSE
      [] c.k = "nan"     -> TRUE
      [] c.k = "num"     -> c.v # 0
      [] c.k = "str"     -> c.s # <<>>

\* A field validator's outcome: the value, or a ValueError (a ValidationError
\* of the row).
Valid(x) == [ok |-> TRUE, val |-> x]

Invalid == [ok |-> FALSE, val |-> None]

parse_currency(c) ==
    CASE c.k \in {"none", "nan"} -> Valid(None)
      [] c.k = "num" -> Valid(Some(c.v * Cents))
      [] c.k = "str" ->
            LET t == Replace(Remove(Remove(c.s, "$"), "."), ",", ".")
            IN  IF IsFloatLiteral(t) THEN Valid(Some(FloatOfLiteral(t))) ELSE Invalid
      [] OTHER -> Invalid

parse_integer(c) ==
    CASE c.k \in {"none", "nan"} -> Valid(None)
      [] c.k = "num" -> Valid(Some(c.v))
      [] c.k = "str" ->
            LET t == Replace(Remove(c.s, "."), ",", ".")
            IN  IF IsFloatLiteral(t) THEN Valid(Some(IntOfFloat(FloatOfLiteral(t))))
                ELSE Invalid
      [] OTHER -> Invalid

\* A field declared without a default is required: an absent key is an error.
RequiredField(c, parsed) == IF c.k = "missing" THEN Invalid ELSE parsed

\* A field declared Field(None): an absent key takes the default, unvalidated.
DefaultNoneField(c, parsed) == IF c.k = "missing" THEN Valid(None) ELSE parsed

\* ------------------------------------------------------------------------
\* Timestamps: <<year, month, day, hour>>
\* ------------------------------------------------------------------------

NaT == <<0, 0, 0, 0>>

Year(t) == t[1]

Month(t) == t[2]

Day(t) == t[3]

Hour(t) == t[4]

DateOf(t) == <<t[1], t[2], t[3]>>

IsLeap(y) == (y % 4 = 0 /\ y % 100 # 0) \/ y % 400 = 0

DaysInMonth(y, m) ==
    CASE m \in {1, 3, 5, 7, 8, 10, 12} -> 31
      [] m \in {4, 6, 9, 11} -> 30
      [] m = 2 -> IF IsLeap(y) THEN 29 ELSE 28
      [] OTHER -> 0

\* What strptime / to_datetime with '%Y-%m-%d %H:%M:%S' accepts.
IsDatetime(t) ==
    /\ t[2] \in 1..12
    /\ t[3] \in 1..DaysInMonth(t[1], t[2])
    /\ t[4] \in 0..23

\* A total order on timestamps and on dates (lexicographic).
TsKey(t) == ((t[1] * 13 + t[2]) * 32 + t[3]) * 24 + t[4]

DateKey(d) == (d[1] * 13 + d[2]) * 32 + d[3]

parse_datetime(t) == IF IsDatetime(t) THEN [ok |-> TRUE, t |-> t] ELSE [ok |-> FALSE, t |-> NaT]

\* The text is split as year-day-month and rebuilt as year-month-day: day and
\* month change places; what is then no date gives NaT.
correct_datetime_format(t) ==
    LET swapped == <<t[1], t[3], t[2], t[4]>>
    IN  IF t # NaT /\ IsDatetime(swapped) THEN swapped ELSE NaT

\* ------------------------------------------------------------------------
\* models.py: HourlyTransactions and ValidatedTransactionData
\* ------------------------------------------------------------------------

\* The pre root validator, on the raw cells.  `raise logger.error(...)` raises
\* None: a TypeError, which pydantic does not turn into a ValidationError.
check_pledge_and_citizens(row) ==
    /\ Truthy(row.total_pledge) \/ Truthy(row.data_correction_total_pledge)
    /\ Truthy(row.total_citizens) \/ Truthy(row.data_correction_total_citizen)

\* HourlyTransactions(**row): "TypeError" (out of the root validator),
\* "ValidationError" (a field), or "ok" with the parsed fields.
HourlyTransactions(row) ==
    LET dt == parse_datetime(row.datetime_utc)
        tp == RequiredField(row.total_pledge, parse_currency(row.total_pledge))
        dp == RequiredField(row.delta_pledge, parse_currency(row.delta_pledge))
        tc == RequiredField(row.total_citizens, parse_integer(row.total_citizens))
        dc == RequiredField(row.delta_citizens, parse_integer(row.delta_citizens))
        cp == DefaultNoneField(row.data_correction_total_pledge,
                               parse_currency(row.data_correction_total_pledge))
        cc == DefaultNoneField(row.data_correction_total_citizen,
                               parse_integer(row.data_correction_total_citizen))
        rec == [datetime_utc |-> dt.t,
                total_pledge |-> tp.val, delta_pledge |-> dp.val,
                total_citizens |-> tc.val, delta_citizens |-> dc.val,
                data_correction_total_pledge |-> cp.val,
                data_correction_total_citizen |-> cc.val]
    IN  IF ~check_pledge_and_citizens(row) THEN [res |-> "TypeError", rec |-> rec]
        ELSE IF dt.ok /\ tp.ok /\ dp.ok /\ tc.ok /\ dc.ok /\ cp.ok /\ cc.ok
             THEN [res |-> "ok", rec |-> rec]
             ELSE [res |-> "ValidationError", rec |-> rec]

\* ValidatedTransactionData(...): every field is required and not None, the
\* totals are >= 0.
ValidatedTransactionData(r) ==
    /\ r.total_pledge.some /\ r.total_pledge.v >= 0
    /\ r.delta_pledge.some
    /\ r.total_citizens.some /\ r.total_citizens.v >= 0
    /\ r.delta_citizens.some

\* A mutant of data: the primary total first, the correction as the fallback.
data_primary_first(t) ==
    [datetime_utc |-> t.datetime_utc,
     total_pledge |-> IF t.total_pledge.some THEN t.total_pledge
                      ELSE t.data_correction_total_pledge,
     delta_pledge |-> t.delta_pledge,
     total_citizens |-> IF t.total_citizens.some THEN t.total_citizens
                        ELSE t.data_correction_total_citizen,
     delta_citizens |-> t.delta_citizens]

\* HourlyTransactions.data: the fields handed to ValidatedTransactionData.
data(t) ==
    [datetime_utc |-> t.datetime_utc,
     total_pledge |-> IF t.data_correction_total_pledge.some
                      THEN t.data_correction_total_pledge ELSE t.total_pledge,
     delta_pledge |-> t.delta_pledge,
     total_citizens |-> IF t.data_correction_total_citizen.some
                        THEN t.data_correction_total_citizen ELSE t.total_citizens,
     delta_citizens |-> t.delta_citizens]

\* ------------------------------------------------------------------------
\* loader.py: TransactionParser.parse_transactions / parse_dataframe
\* ------------------------------------------------------------------------

VARIABLES
    raw_data,           \* the frame read from the CSV: a sequence of raw rows
    true_date,          \* the calendar date each raw row was really recorded on
    pc,                 \* where TransactionParser.__init__ stands
    exception,          \* the exception that left parse_dataframe, or "none"
    transactions,       \* parse_transactions' list
    dataframe,          \* parse_dataframe's frame
    problematic_dates,  \* the duplicated dates still to be repaired
    series_dataframe,   \* TimeSeriesConstructor.dataframe: the records it is built on
    copy_on_write,      \* whether pandas runs with copy-on-write
    deepest_time_series,\* TimeSeriesConstructor.deepest_time_series
    series_pc,          \* "new", "refused", "processed" or "served"
    call,               \* the arguments of the last get
    output,             \* what the last get returned or raised
    entry,              \* the method the last call went through
    supplied_rules,     \* the aggregation_functions argument of the constructor
    aggregation_functions,  \* the constructor's aggregation_functions
    transactions_series,\* get_time_series: the three series that are joined,
    calendar_events,    \*   each the set of its periods
    game_versions,
    merge_pc,           \* "ready" or "done"
    merged,             \* what CompleteTimeSeries.get_time_series returned or raised
    warned,             \* whether it logged its warning
    precedence_df,      \* the series precedence is asked about
    legacy_scipy,       \* whether scipy is older than 1.9
    precedence_pc,      \* "ready" or "returned"
    precedence_call,    \* the arguments of the call of precedence
    precedence_result,  \* what precedence returned or raised
    versions_raw_data,  \* GameVersionParser.raw_data: the intervals read from the CSV
    today,              \* the day datetime.now() falls on
    versions,           \* GameVersionParser.versions
    versions_long,      \* GameVersionParser.versions_long, or None
    versions_pc,        \* where GameVersionParser.__init__ stands
    versions_errors,    \* the calls of logger.error so far
    hourly,             \* the hourly series main_statistics reads
    statistics_pc,      \* "ready" or "done"
    statistics,         \* what main_statistics returned or raised
    clock,              \* datetime.now(), in minutes
    last_refresh_time,  \* TimeChecker.last_refresh_time
    cache_resource,     \* the refresh_time keys st.cache_resource holds a load for
    session_state,      \* of each session: the key its cts was loaded with, if any
    returned            \* what the last check_and_set returned

parserVars == <<raw_data, true_date, pc, exception, transactions, dataframe,
                problematic_dates>>

seriesVars == <<series_dataframe, copy_on_write, deepest_time_series, series_pc,
                call, output, entry, supplied_rules, aggregation_functions>>

mergeVars == <<transactions_series, calendar_events, game_versions, merge_pc, merged,
               warned>>

precedenceVars == <<precedence_df, legacy_scipy, precedence_pc, precedence_call,
                    precedence_result>>

versionVars == <<versions_raw_data, today, versions, versions_long, versions_pc,
                 versions_errors>>

statisticsVars == <<hourly, statistics_pc, statistics>>

refreshVars == <<clock, last_refresh_time, cache_resource, session_state, returned>>

vars == <<parserVars, seriesVars, mergeVars, precedenceVars, versionVars,
          statisticsVars, refreshVars>>

RECURSIVE parse_rows(_, _, _)
\* The loop of parse_transactions from row i on: a ValidationError skips the
\* row, any other exception leaves the loop and the function.  Each kept
\* record remembers the raw row it came from (row).
parse_rows(rows, i, acc) ==
    IF i > Len(rows) THEN [raised |-> FALSE, transactions |-> acc]
    ELSE LET o == HourlyTransactions(rows[i])
         IN  CASE o.res = "TypeError" -> [raised |-> TRUE, transactions |-> acc]
               [] o.res = "ok" ->
                     parse_rows(rows, i + 1, Append(acc, [rec |-> o.rec, row |-> i]))
               [] OTHER -> parse_rows(rows, i + 1, acc)

parse_transactions(rows) == parse_rows(rows, 1, <<>>)

\* succesful_records: t.data.model_dump() of every transaction whose data
\* validates, in order; the others go to unsuccessful_records.
succesful_records(ts) ==
    LET keep == SelectSeq(ts, LAMBDA t : ValidatedTransactionData(data(t.rec)))
    IN  [i \in 1..Len(keep) |->
            LET d == data(keep[i].rec)
            IN  [datetime_utc |-> d.datetime_utc,
                 total_pledge |-> d.total_pledge.v,
                 delta_pledge |-> d.delta_pledge.v,
                 total_citizens |-> d.total_citizens.v,
                 delta_citizens |-> d.delta_citizens.v,
                 row |-> keep[i].row]]

\* dataframe["datetime_utc"]
datetime_utc(df) == [i \in 1..Len(df) |-> df[i].datetime_utc]

\* The frame with its datetime_utc column replaced.
WithDatetime(df, col) == [i \in 1..Len(df) |-> [df[i] EXCEPT !.datetime_utc = col[i]]]

\* Series.diff() < Timedelta(0): the positions whose timestamp is earlier than
\* the row before (NaT compares false).
suspicious_dates(col) ==
    SortedSeq({i \in 2..Len(col) :
        col[i] # NaT /\ col[i - 1] # NaT /\ TsKey(col[i]) < TsKey(col[i - 1])})

\* suspicious_dates.shift(-1).dt.month == suspicious_dates.dt.day, at the j-th
\* backward step; the last one has no next and compares false.
suspicious_indices(col, S, j) ==
    j < Len(S) /\ Month(col[S[j + 1]]) = Day(col[S[j]])

\* The spans start_idx..end_idx the first pass rewrites: the backward steps
\* taken in pairs (j, j+1), j = 1, 3, 5, ...
corrupted_spans(col) ==
    LET S == suspicious_dates(col)
    IN  {<<S[j], S[j + 1] - 1>> : j \in {k \in 1..Len(S) :
            /\ k % 2 = 1
            /\ k + 1 <= Len(S)
            /\ suspicious_indices(col, S, k)
            /\ ~suspicious_indices(col, S, k + 1)}}

\* The first pass over the datetime column.
correct_backward_steps(col) ==
    LET spans == corrupted_spans(col)
    IN  [i \in 1..Len(col) |->
            IF \E sp \in spans : sp[1] <= i /\ i <= sp[2]
            THEN correct_datetime_format(col[i]) ELSE col[i]]

\* Series.duplicated(keep="first"): the positions that repeat an earlier value.
duplicated(col) == {i \in 1..Len(col) : \E j \in 1..(i - 1) : col[j] = col[i]}

NaTDate == <<0, 0, 0>>

\* duplicated_timestamps.dt.date.unique()
duplicated_dates(col) == {DateOf(col[i]) : i \in duplicated(col)}

RECURSIVE SortedDates(_)
SortedDates(D) ==
    IF D = {} THEN <<>>
    ELSE LET m == CHOOSE x \in D : \A y \in D : DateKey(x) <= DateKey(y)
         IN  <<m>> \o SortedDates(D \ {m})

\* The rows whose date is the duplication event, ascending.
matching_date_indexes(col, event) ==
    SortedSeq({i \in 1..Len(col) : col[i] # NaT /\ DateOf(col[i]) = event})

\* A mutant of point_of_rupture: the test of the comment (> 24), not of the code.
point_of_rupture_strict(m) ==
    SortedSeq({m[k + 1] : k \in {j \in 1..(Len(m) - 1) : m[j + 1] - m[j] > 24}})

\* matching_date_indexes[matching_date_indexes.diff() >= 24]
point_of_rupture(m) ==
    SortedSeq({m[k + 1] : k \in {j \in 1..(Len(m) - 1) : m[j + 1] - m[j] >= 24}})

first_island(m, r) == {m[k] : k \in {j \in 1..Len(m) : m[j] <= r - 1}}

second_island(m, r) == {m[k] : k \in {j \in 1..Len(m) : m[j] >= r}}

\* A mutant of incorrect_date_indexes: the islands the other way round.
incorrect_date_indexes_reversed(event, m, r) ==
    IF event[2] > event[3] THEN second_island(m, r)
    ELSE IF event[2] < event[3] THEN first_island(m, r)
    ELSE {}

\* The island whose dates are rewritten, for a date <<y, month, day>>.
incorrect_date_indexes(event, m, r) ==
    IF event[2] > event[3] THEN first_island(m, r)
    ELSE IF event[2] < event[3] THEN second_island(m, r)
    ELSE {}

\* One turn of the loop over problematic_dates, when exactly one point of
\* rupture is found.
correct_duplicated_date(col, event) ==
    LET m   == matching_date_indexes(col, event)
        bad == incorrect_date_indexes(event, m, point_of_rupture(m)[1])
    IN  [i \in 1..Len(col) |->
            IF i \in bad THEN correct_datetime_format(col[i]) ELSE col[i]]

\* ------------------------------------------------------------------------
\* The frames the parser is run on
\* ------------------------------------------------------------------------

\* Rows of the longest day-island of a generated feed.
MaxIsland == 2

\* Rows around the probed row of a validation batch.
MaxFillers == 1

Row(dt, tp, cp, tc, cc, dp, dc) ==
    [datetime_utc |-> dt,
     total_pledge |-> tp, delta_pledge |-> dp,
     total_citizens |-> tc, delta_citizens |-> dc,
     data_correction_total_pledge |-> cp,
     data_correction_total_citizen |-> cc]

\* A row every check accepts, at timestamp dt.
GoodRow(dt) == Row(dt, Str(<<"$", "1", ".", "2", "5", "0", ",", "5">>), NaN,
                   Num(7), NaN, Num(1), Num(1))

\* The cells a total or its correction is probed with.
RawTotals ==
    {Missing, PyNone, NaN, Str(<<>>), Num(0), Num(7), Num(-3),
     Str(<<"0">>), Str(<<"x">>), Str(<<"$", "1", ".", "2", "5", "0", ",", "5">>)}

RawDeltas == {NaN, Num(-2), Str(<<"x">>)}

ProbeTime == <<2013, 6, 20, 12>>

ProbeRows ==
    {Row(ProbeTime, p, cp, Num(7), NaN, Num(1), Num(1)) : p \in RawTotals, cp \in RawTotals}
    \cup {Row(ProbeTime, Num(7), NaN, c, cc, Num(1), Num(1)) : c \in RawTotals, cc \in RawTotals}
    \cup {Row(ProbeTime, Num(7), NaN, Num(7), NaN, dp, Num(1)) : dp \in RawDeltas}
    \cup {Row(ProbeTime, Num(7), NaN, Num(7), NaN, Num(1), dc) : dc \in RawDeltas}
    \cup {Row(<<2013, 20, 6, 12>>, Num(7), NaN, Num(7), NaN, Num(1), Num(1))}

\* The rows around the probe: one that is accepted, one a field validator
\* refuses, one with no total at all.
FillerRows(dt) ==
    {GoodRow(dt),
     Row(dt, Str(<<"x">>), NaN, Num(7), NaN, Num(1), Num(1)),
     Row(dt, PyNone, PyNone, Num(7), NaN, Num(1), Num(1))}

RECURSIVE FillerSeqs(_, _)
\* The sequences of n filler rows, the i-th at hour h0 + i.
FillerSeqs(n, h0) ==
    IF n = 0 THEN {<<>>}
    ELSE {Append(f, r) : f \in FillerSeqs(n - 1, h0),
                         r \in FillerRows(<<2013, 6, 20, h0 + n>>)}

ValidationBatches ==
    UNION {{f1 \o <<p>> \o f2 : f1 \in FillerSeqs(n[1], 0), p \in ProbeRows,
                                 f2 \in FillerSeqs(n[2], 12)} :
           n \in {x \in (0..MaxFillers) \X (0..MaxFillers) : x[1] + x[2] <= MaxFillers}}

\* A generated feed is planned row by row: the date the row was recorded on
\* (true), the date its text claims (claim: the true one, or the true one
\* written year-day-month) and its hour.
SwapDate(d) == <<d[1], d[3], d[2]>>

PlanIsland(T, n, mask) ==
    [i \in 1..n |-> [true |-> T, claim |-> IF mask[i] THEN SwapDate(T) ELSE T,
                     hour |-> i - 1]]

\* g hourly rows of a date no defect touches (its day is no month).
PlanFill(d, g) == [i \in 1..g |-> [true |-> d, claim |-> d, hour |-> i - 1]]

\* The islands of at most maxn rows of true date T, every row written either way.
IslandPlans(T, maxn) ==
    UNION {{PlanIsland(T, n, m) : m \in [1..n -> BOOLEAN]} : n \in 0..maxn}

May12 == <<2013, 5, 12>>

Dec5 == <<2013, 12, 5>>

\* Feeds around a date and its transposition: three islands, parted by 22 or
\* 23 rows of another day (so 23 or 24 positions from island to island) or by
\* none.
DateTriples == {<<May12, May12, Dec5>>, <<May12, Dec5, Dec5>>}

FillerLengths == {<<22, 0>>, <<23, 0>>, <<23, 23>>}

DuplicateFeeds ==
    UNION {{i1 \o PlanFill(<<2013, T[1][2], 20>>, g[1]) \o i2
               \o PlanFill(<<2013, T[2][2], 21>>, g[2]) \o i3 :
            i1 \in IslandPlans(T[1], MaxIsland), i2 \in IslandPlans(T[2], MaxIsland),
            i3 \in IslandPlans(T[3], 1)} :
           T \in DateTriples, g \in FillerLengths}

\* Feeds with a run of days written year-day-month: 31 January, then 1, 3 and
\* 4 February.
BackwardFeeds ==
    {<<[true |-> <<2013, 1, 31>>, claim |-> <<2013, 1, 31>>, hour |-> 23]>>
        \o i1 \o i2 \o i3 :
     i1 \in IslandPlans(<<2013, 2, 1>>, MaxIsland),
     i2 \in IslandPlans(<<2013, 2, 3>>, MaxIsland),
     i3 \in IslandPlans(<<2013, 2, 4>>, 1)}

\* A feed in the order it was recorded: 31 January, 1 February written
\* year-day-month, 13 February written as it is, 2 March written
\* year-day-month.
MixedFeed ==
    <<[true |-> <<2013, 1, 31>>, claim |-> <<2013, 1, 31>>, hour |-> 23],
      [true |-> <<2013, 2, 1>>, claim |-> <<2013, 1, 2>>, hour |-> 0],
      [true |-> <<2013, 2, 13>>, claim |-> <<2013, 2, 13>>, hour |-> 0],
      [true |-> <<2013, 3, 2>>, claim |-> <<2013, 2, 3>>, hour |-> 0]>>

\* A row of a generated feed: numeric cells, every check accepts it.
FeedRow(dt) == Row(dt, Num(7), NaN, Num(7), NaN, Num(1), Num(1))

FeedRows(plan) ==
    [i \in 1..Len(plan) |->
        FeedRow(<<plan[i].claim[1], plan[i].claim[2], plan[i].claim[3], plan[i].hour>>)]

FeedTruth(plan) == [i \in 1..Len(plan) |-> plan[i].true]

ParserInputs ==
    {[rows |-> b, truth |-> [i \in 1..Len(b) |-> DateOf(b[i].datetime_utc)]] :
        b \in ValidationBatches}
    \cup {[rows |-> FeedRows(f), truth |-> FeedTruth(f)] :
        f \in DuplicateFeeds \cup BackwardFeeds \cup {MixedFeed}}

\* ------------------------------------------------------------------------
\* time_series.py: TimeSeriesConstructor
\* ------------------------------------------------------------------------

\* The index of a series is counted in hours from Saturday 29 December 2018,
\* 00:00.  Sunday 30 December is hours 24..47, Monday 31 December 48..71, and
\* 2019 begins at hour 72; the series of the model end before February 2019.
\* A number that may be NaN is an optional value; a ratio is [some, num, den].

YearOf(h) == IF h < 72 THEN 2018 ELSE 2019

RECURSIVE Product(_)
Product(s) == IF s = <<>> THEN 1 ELSE Head(s) * Product(Tail(s))

RECURSIVE SumOver(_, _, _)
\* Series.sum() of column col over the rows J: NaN is skipped.
SumOver(ts, col, J) ==
    IF J = {} THEN 0
    ELSE LET j == CHOOSE x \in J : TRUE
         IN  (IF ts[j][col].some THEN ts[j][col].v ELSE 0) + SumOver(ts, col, J \ {j})

\* dataframe.index, as a set
index_hours(df) == {df[i].t : i \in 1..Len(df)}

\* A mutant of last: the first record of each timestamp.
first(df, h) == df[Min({i \in 1..Len(df) : df[i].t = h})]

\* groupby(index).last(): the last record of each timestamp, in row order.
last(df, h) == df[Max({i \in 1..Len(df) : df[i].t = h})]

\* Linear interpolation divides by the gaps between the records; every value
\* of a series is held multiplied by the product of the gaps, so it stays whole.
Scale(df) ==
    LET H == SortedSeq(index_hours(df))
    IN  Product([i \in 1..(Len(H) - 1) |-> H[i + 1] - H[i]])

\* asfreq('h').interpolate('linear') of column col at hour h, times scale.
interpolate(df, col, h, scale) ==
    LET lo == Max({k \in index_hours(df) : k <= h})
        hi == Min({k \in index_hours(df) : k >= h})
        a  == last(df, lo)[col]
        b  == last(df, hi)[col]
    IN  IF lo = hi THEN a * scale
        ELSE a * scale + (h - lo) * (b - a) * (scale \div (hi - lo))

\* Series.diff(), then `series.iloc[0] = total.iloc[0]` on the column taken
\* out of the frame: a chained assignment, which writes into the frame only
\* without copy-on-write.
diff(ts, col, i, cow) ==
    IF i = 1 THEN (IF cow THEN None ELSE Some(ts[1][col]))
    ELSE Some(ts[i][col] - ts[i - 1][col])

\* The frame process hands over holds the measurements only: both deltas are
\* missing and are recomputed from the totals.
recompute_summables(ts, cow) ==
    [i \in 1..Len(ts) |->
        [t |-> ts[i].t,
         total_pledge |-> ts[i].total_pledge,
         total_citizens |-> ts[i].total_citizens,
         delta_citizens |-> diff(ts, "total_citizens", i, cow),
         delta_pledge |-> diff(ts, "total_pledge", i, cow)]]

\* groupby(index.year)[col].cumsum() at row i.
year_cumsum(ts, col, i) ==
    IF ~ts[i][col].some THEN None
    ELSE Some(SumOver(ts, col, {j \in 1..i : YearOf(ts[j].t) = YearOf(ts[i].t)}))

add_in_year_totals(ts) ==
    [i \in 1..Len(ts) |->
        [t |-> ts[i].t,
         total_pledge |-> ts[i].total_pledge,
         total_citizens |-> ts[i].total_citizens,
         delta_citizens |-> ts[i].delta_citizens,
         delta_pledge |-> ts[i].delta_pledge,
         total_citizens_in_year |-> year_cumsum(ts, "delta_citizens", i),
         total_pledge_in_year |-> year_cumsum(ts, "delta_pledge", i)]]

process(df, cow) ==
    LET t0 == Min(index_hours(df))
        n  == Max(index_hours(df)) - t0 + 1
        scale == Scale(df)
        measured == [i \in 1..n |->
                        [t |-> t0 + i - 1,
                         total_pledge |->
                            interpolate(df, "total_pledge", t0 + i - 1, scale),
                         total_citizens |->
                            interpolate(df, "total_citizens", t0 + i - 1, scale)]]
    IN  add_in_year_totals(recompute_summables(measured, cow))

\* A frequency string is held as its parts between dashes: 'W-SUN' is
\* <<"W", "SUN">>.  The offsets pandas knows, among those the model writes:
Offsets == {<<"h">>, <<"D">>, <<"W">>, <<"W", "SUN">>, <<"ME">>, <<"YE">>}

\* The label of the bin of hour h: the hour, the day (its midnight), the
\* Sunday ending the week Monday..Sunday, the last day of the month or year.
Label(freq, h) ==
    CASE freq = <<"h">> -> h
      [] freq = <<"D">> -> (h \div 24) * 24
      [] freq \in {<<"W">>, <<"W", "SUN">>} ->
            ((h \div 24) + ((1 - (h \div 24)) % 7)) * 24
      [] freq = <<"ME">> -> IF h < 72 THEN 48 ELSE 33 * 24
      [] freq = <<"YE">> -> IF h < 72 THEN 48 ELSE 367 * 24

\* The label after label l.
NextLabel(freq, l) ==
    CASE freq = <<"h">> -> l + 1
      [] freq = <<"D">> -> l + 24
      [] freq \in {<<"W">>, <<"W", "SUN">>} -> l + 7 * 24
      [] freq = <<"ME">> -> IF l < 72 THEN 33 * 24 ELSE l + 28 * 24
      [] freq = <<"YE">> -> IF l < 72 THEN 367 * 24 ELSE l + 366 * 24

RECURSIVE LabelsFrom(_, _, _)
LabelsFrom(freq, l, end) ==
    IF l > end THEN <<>> ELSE <<l>> \o LabelsFrom(freq, NextLabel(freq, l), end)

\* Series.max() of column col over the rows J: NaN is skipped, NaN if all are.
MaxOver(ts, col, J) ==
    LET V == {ts[j][col].v : j \in {x \in J : ts[x][col].some}}
    IN  IF V = {} THEN None ELSE Some(Max(V))

\* resample(freq).agg({delta: sum, in_year: max}): one row per bin, from the
\* bin of the first row to the bin of the last.
resample(base, freq) ==
    LET bin    == [j \in 1..Len(base) |-> Label(freq, base[j].t)]
        labels == LabelsFrom(freq, bin[1], bin[Len(base)])
    IN  [k \in 1..Len(labels) |->
            LET J == {j \in 1..Len(base) : bin[j] = labels[k]}
            IN  [t |-> labels[k],
                 delta_pledge |-> SumOver(base, "delta_pledge", J),
                 delta_citizens |-> SumOver(base, "delta_citizens", J),
                 total_pledge_in_year |-> MaxOver(base, "total_pledge_in_year", J),
                 total_citizens_in_year |-> MaxOver(base, "total_citizens_in_year", J)]]

RECURSIVE FillForward(_, _)
\* A column with every NaN replaced by the last value before it, if any.
FillForward(s, carried) ==
    IF s = <<>> THEN <<>>
    ELSE LET x == IF Head(s).some THEN Head(s) ELSE carried
         IN  <<x>> \o FillForward(Tail(s), x)

\* DataFrame.ffill(): the sums hold no NaN, the maxima may.
ffill(ts) ==
    LET p == FillForward([k \in 1..Len(ts) |-> ts[k].total_pledge_in_year], None)
        c == FillForward([k \in 1..Len(ts) |-> ts[k].total_citizens_in_year], None)
    IN  [k \in 1..Len(ts) |->
            [ts[k] EXCEPT !.total_pledge_in_year = p[k], !.total_citizens_in_year = c[k]]]

RECURSIVE RunningSum(_, _)
RunningSum(s, sum) ==
    IF s = <<>> THEN <<>>
    ELSE <<sum + Head(s)>> \o RunningSum(Tail(s), sum + Head(s))

\* Series.cumsum() of column col
cumsum(ts, col) == RunningSum([k \in 1..Len(ts) |-> ts[k][col]], 0)

\* A mutant of add_totals: the running sums without the period itself.
add_totals_exclusive(ts) ==
    LET c == <<0>> \o cumsum(ts, "delta_citizens")
        p == <<0>> \o cumsum(ts, "delta_pledge")
    IN  [k \in 1..Len(ts) |-> ts[k] @@ [total_citizens |-> c[k], total_pledge |-> p[k]]]

\* add_totals: the totals are not columns of the resampled frame and are the
\* running sums of the deltas.
add_totals(ts) ==
    LET c == cumsum(ts, "delta_citizens")
        p == cumsum(ts, "delta_pledge")
    IN  [k \in 1..Len(ts) |-> ts[k] @@ [total_citizens |-> c[k], total_pledge |-> p[k]]]

\* np.where(den != 0, num / den, nan)
Ratio(num, den) ==
    IF den # 0 THEN [some |-> TRUE, num |-> num, den |-> den]
    ELSE [some |-> FALSE, num |-> 0, den |-> 1]

add_averages(ts) ==
    [k \in 1..Len(ts) |->
        ts[k] @@
        [cumulative_avg_pledge_total |-> Ratio(ts[k].total_pledge, ts[k].total_citizens),
         local_avg_pledge_total |-> Ratio(ts[k].delta_pledge, ts[k].delta_citizens)]]

\* A mutant of add_rolling_totals: the window ends at the row itself.
add_rolling_totals_inclusive(ts, last_periods) ==
    LET c == <<0>> \o cumsum(ts, "delta_citizens")
        p == <<0>> \o cumsum(ts, "delta_pledge")
        from(k) == Max({0, k - last_periods}) + 1
    IN  [k \in 1..Len(ts) |->
            ts[k] @@
            [citizens_prior_periods |-> Some(c[k + 1] - c[from(k)]),
             pledge_prior_periods |-> Some(p[k + 1] - p[from(k)])]]

\* rolling(window, min_periods=1).sum().shift(1): at row k the sum of the
\* window that ends at row k - 1; NaN at the first row.
add_rolling_totals(ts, last_periods) ==
    LET c == <<0>> \o cumsum(ts, "delta_citizens")
        p == <<0>> \o cumsum(ts, "delta_pledge")
        from(k) == Max({0, k - 1 - last_periods}) + 1
    IN  [k \in 1..Len(ts) |->
            ts[k] @@
            [citizens_prior_periods |-> IF k = 1 THEN None ELSE Some(c[k] - c[from(k)]),
             pledge_prior_periods |-> IF k = 1 THEN None ELSE Some(p[k] - p[from(k)])]]

\* add_time_metrics: infer_freq raises a ValueError on fewer than 3 dates; the
\* index of a resampled frame is regular, and the year is then a column.
add_time_metrics(ts) ==
    IF Len(ts) < 3 THEN [res |-> "ValueError", series |-> <<>>]
    ELSE [res |-> "ok",
          series |-> [k \in 1..Len(ts) |-> ts[k] @@ [year |-> YearOf(ts[k].t)]]]

\* The aggregation_functions argument: None, or a dict, here the set of its
\* <<column, function>> items.
NoRules == [some |-> FALSE, rules |-> {}]

Rules(items) == [some |-> TRUE, rules |-> items]

\* The rules TransactionParser passes, which are also the hard-coded default.
TransactionRules ==
    {<<"delta_pledge", "sum">>, <<"delta_citizens", "sum">>,
     <<"total_pledge_in_year", "max">>, <<"total_citizens_in_year", "max">>}

\* The rules CalendarParser passes.
SaleRules == {<<"on_sale", "sum">>}

\* TimeSeriesConstructor.__init__: without aggregation_functions a warning is
\* logged and the hard-coded default is used.
rules_or_default(rules) ==
    IF ~rules.some THEN Rules(TransactionRules) ELSE rules

\* The columns of a frame.
columns(frame) == IF frame = <<>> THEN {} ELSE DOMAIN frame[1] \ {"t"}

\* TimeSeriesConstructor.get.  Selecting a column the base series has not got
\* raises a KeyError.  A weekly frequency gets '-SUN' appended; what is
\* then no offset, and a window below 1, raise a ValueError.
get(rules, base, freq, last_periods, append_time_metrics) ==
    LET f == IF Head(freq) = "W" THEN Append(freq, "SUN") ELSE freq
    IN  IF \E item \in rules : item[1] \notin columns(base)
        THEN [res |-> "KeyError", series |-> <<>>]
        ELSE IF f \notin Offsets \/ last_periods < 1
        THEN [res |-> "ValueError", series |-> <<>>]
        ELSE LET time_series == ffill(resample(base, f))
                 out == add_rolling_totals(add_averages(add_totals(time_series)),
                                           last_periods)
             IN  IF append_time_metrics THEN add_time_metrics(out)
                 ELSE [res |-> "ok", series |-> out]

\* A mutant of FileLoader_get_time_series: what get raises goes through.
FileLoader_get_time_series_propagating(built, rules, base, freq, append_time_metrics) ==
    IF ~built THEN [res |-> "ValueError", series |-> <<>>]
    ELSE get(rules, base, freq, 30, append_time_metrics)

\* FileLoader.get_time_series: a ValueError while time_series_constructor is
\* None; else what get returns, and the empty frame when get raises.
FileLoader_get_time_series(built, rules, base, freq, append_time_metrics) ==
    IF ~built THEN [res |-> "ValueError", series |-> <<>>]
    ELSE LET time_series == get(rules, base, freq, 30, append_time_metrics)
         IN  IF time_series.res = "ok" THEN time_series
             ELSE [res |-> "ok", series |-> <<>>]

\* ------------------------------------------------------------------------
\* The records a series is built on
\* ------------------------------------------------------------------------

\* Records of a series.
MaxRecs == 2

\* The last hour of Sunday 30 December 2018 and the first two hours of 2019.
RecordHours == {47, 72, 73}

\* <<total_pledge, total_citizens>> of a record
RecordTotals == {<<0, 0>>, <<3, 1>>}

Records ==
    {[t |-> h, total_pledge |-> v[1], total_citizens |-> v[2]] :
        h \in RecordHours, v \in RecordTotals}

\* Two records of one day, an hour apart: 100, then 150.
EndToEnd ==
    <<[t |-> 72, total_pledge |-> 100, total_citizens |-> 1],
      [t |-> 73, total_pledge |-> 150, total_citizens |-> 2]>>

\* A record, and a day later two records of one timestamp.
GapAndDuplicate ==
    <<[t |-> 47, total_pledge |-> 0, total_citizens |-> 0],
      [t |-> 72, total_pledge |-> 0, total_citizens |-> 0],
      [t |-> 72, total_pledge |-> 3, total_citizens |-> 1]>>

\* Two records an hour apart that come with their deltas, as the records of
\* the transaction parser do: 100 (delta 40), then 150 (delta 7).
SuppliedDeltas ==
    <<[t |-> 72, total_pledge |-> 100, total_citizens |-> 1,
       delta_pledge |-> 40, delta_citizens |-> 1],
      [t |-> 73, total_pledge |-> 150, total_citizens |-> 2,
       delta_pledge |-> 7, delta_citizens |-> 3]>>

\* The frames the constructor is given: rows in the order of their timestamps,
\* a timestamp possibly more than once.
SeriesInputs ==
    UNION {{s \in [1..n -> Records] : \A i \in 1..(n - 1) : s[i].t <= s[i + 1].t} :
           n \in 1..MaxRecs}
    \cup {EndToEnd, GapAndDuplicate, SuppliedDeltas}

LastPeriods == {0, 1, 30}

NoCall == [freq |-> <<>>, last_periods |-> 0, append_time_metrics |-> FALSE]

NoOutput == [res |-> "none", series |-> <<>>]

\* ------------------------------------------------------------------------
\* combined_signals.py: CompleteTimeSeries.get_time_series
\* ------------------------------------------------------------------------

\* The three series are resampled at one frequency: a timestamp is the number
\* of its period, a series the set of its periods (a resampled series has no
\* gap).  A cell holds the period its value was measured in, so that a value
\* carried forward shows.

\* DataFrame.ffill() at period t of a column known at the periods S.
carried(S, t) ==
    IF {s \in S : s <= t} = {} THEN None ELSE Some(Max({s \in S : s <= t}))

\* A mutant of truncate: nothing is cut.
truncate_nothing(index, max_date) == index

\* combined_df.loc[:max_date]
truncate(index, max_date) == {t \in index : t <= max_date}

\* infer_freq of the index and what add_time_metrics makes of it: a ValueError
\* below 3 dates; on an index with a gap no frequency (None), and
\* format_timestamp(None) is an AttributeError.
infer_freq(index) ==
    IF Cardinality(index) < 3 THEN "ValueError"
    ELSE IF index # Min(index)..Max(index) THEN "AttributeError"
    ELSE "ok"

\* A mutant of dropna: no row is dropped.
dropna_nothing(combined_df) == DOMAIN combined_df

\* combined_df.dropna(subset=['delta_pledge']): the timestamps of the rows kept.
dropna(combined_df) == {t \in DOMAIN combined_df : combined_df[t].delta_pledge.some}

get_time_series(transactions_index, calendar_index, versions_index) ==
    LET max_date == Max(transactions_index)
        joined   == transactions_index \cup calendar_index \cup versions_index
        index    == truncate(joined, max_date)
        combined_df ==
            [t \in index |->
                [t |-> t,
                 delta_pledge |-> carried(transactions_index, t),
                 on_sale |-> carried(calendar_index, t),
                 version_id |-> carried(versions_index, t)]]
        kept     == dropna(combined_df)
        reindexed == [k \in 1..(Max(kept) - Min(kept) + 1) |->
                        LET t == Min(kept) + k - 1
                        IN  IF t \in kept THEN combined_df[t]
                            ELSE [t |-> t, delta_pledge |-> None, on_sale |-> None,
                                  version_id |-> None]]
    IN  IF infer_freq(index) # "ok"
        THEN [res |-> infer_freq(index), series |-> <<>>, warned |-> FALSE]
        ELSE [res |-> "ok", series |-> reindexed, warned |-> Max(index) > max_date]

\* The last period of the model.
MaxPeriod == 4

\* The series of a parser: the periods first..last.
PeriodRanges == {a..b : a \in 0..MaxPeriod, b \in 0..MaxPeriod} \ {{}}

\* ------------------------------------------------------------------------
\* loader.py: TransactionParser.main_statistics; utils.py: same_time_in_other_year
\* ------------------------------------------------------------------------

\* The hourly series of the statistics is held on a short calendar: a year
\* has YearDays days and a day DayHours hours; an index value counts the hours
\* from the first hour of 2018.
YearDays == 2

DayHours == 2

\* The years the hourly series may span.
MaxYears == 3

\* index.year, index.dayofyear, index.hour
index_year(t) == 2018 + t \div (YearDays * DayHours)

index_dayofyear(t) == ((t \div DayHours) % YearDays) + 1

index_hour(t) == t % DayHours

\* get("h") of a base series that begins at hour a and ends at hour b, every
\* hour with a pledge of 2 and one new citizen: the in-year totals run from the
\* beginning of the year, or of the series.
HourlySeries(a, b) ==
    [k \in 1..(b - a + 1) |->
        LET t == a + k - 1
            since == Max({a, (t \div (YearDays * DayHours)) * (YearDays * DayHours)})
        IN  [t |-> t,
             total_pledge_in_year |-> 2 * (t - since + 1),
             total_citizens_in_year |-> t - since + 1]]

HourlyInputs ==
    {HourlySeries(a, b) : a \in 0..(MaxYears * YearDays * DayHours - 1),
                          b \in 0..(MaxYears * YearDays * DayHours - 1)} \ {<<>>}

\* same_time_in_other_year(ts), date and year left at None: the rows of the
\* day of the year of the last row, a year earlier; of these the last one, or
\* None (here the empty sequence).
same_time_in_other_year(ts) ==
    LET date == ts[Len(ts)].t
        other == index_year(date) - 1
        mask == {k \in 1..Len(ts) :
                    /\ index_dayofyear(ts[k].t) = index_dayofyear(date)
                    /\ index_year(ts[k].t) = other}
    IN  IF mask = {} THEN <<>> ELSE <<ts[Max(mask)]>>

NoStatistics ==
    [res |-> "none", last_updated |-> 0,
     pledges |-> [total_this_year |-> 0, total_year_on_year |-> 0,
                  pct_change_year_on_year |-> [num |-> 0, den |-> 1]],
     citizens |-> [total_this_year |-> 0, total_year_on_year |-> 0,
                   pct_change_year_on_year |-> [num |-> 0, den |-> 1]]]

\* this / other - 1, as the fraction (this - other) / other
pct_change(this, other) == [num |-> this - other, den |-> other]

\* TransactionParser.main_statistics on the hourly series ts.  get("h") appends
\* the time metrics and raises a ValueError below 3 rows; subscripting the None
\* of same_time_in_other_year is a TypeError.
main_statistics(ts) ==
    IF Len(ts) < 3 THEN [NoStatistics EXCEPT !.res = "ValueError"]
    ELSE LET latest == ts[Len(ts)]
             last_year == same_time_in_other_year(ts)
         IN  IF last_year = <<>> THEN [NoStatistics EXCEPT !.res = "TypeError"]
             ELSE [res |-> "ok",
                   last_updated |-> latest.t,
                   pledges |->
                      [total_this_year |-> latest.total_pledge_in_year,
                       total_year_on_year |-> last_year[1].total_pledge_in_year,
                       pct_change_year_on_year |->
                          pct_change(latest.total_pledge_in_year,
                                     last_year[1].total_pledge_in_year)],
                   citizens |->
                      [total_this_year |-> latest.total_citizens_in_year,
                       total_year_on_year |-> last_year[1].total_citizens_in_year,
                       pct_change_year_on_year |->
                          pct_change(latest.total_citizens_in_year,
                                     last_year[1].total_citizens_in_year)]]

\* ------------------------------------------------------------------------
\* data.py: TimeChecker and the session state
\* ------------------------------------------------------------------------

\* Times are minutes; datetime.min lies far before every reading of the clock.
datetime_min == -1000000

delay == 45

\* A mutant of check_and_set: 45 minutes are enough.
check_and_set_inclusive(refreshed, now) ==
    IF now - refreshed >= delay THEN [returned |-> TRUE, last_refresh_time |-> now]
    ELSE [returned |-> FALSE, last_refresh_time |-> refreshed]

\* TimeChecker.check_and_set at the clock reading now.
check_and_set(refreshed, now) ==
    IF now - refreshed > delay THEN [returned |-> TRUE, last_refresh_time |-> now]
    ELSE [returned |-> FALSE, last_refresh_time |-> refreshed]

\* The sessions of the application.
MaxSessions == 2

Sessions == 1..MaxSessions

\* The last reading of the clock, and the minutes it advances by between calls.
MaxClock == 90

Steps == {15, 30}

\* ------------------------------------------------------------------------
\* observations.py: precedence
\* ------------------------------------------------------------------------

\* A series is [index, columns, rows]: the class of its index, the names of
\* its columns, and its rows in index order, each [t, delta_pledge] with t the
\* day of January 2020 counted from 0 and delta_pledge a number or NaN.  The
\* timestamp asked about is None, a Timestamp, or a string of the parts
\* year-month or year-month-day.

NoTimestamp == [k |-> "none", v |-> 0, s |-> <<>>]

Timestamp(t) == [k |-> "timestamp", v |-> t, s |-> <<>>]

DateString(s) == [k |-> "str", v |-> 0, s |-> s]

\* pd.to_datetime of a string: the day of the month, the first day when the
\* string names the month only.
to_datetime(s) == IF Len(s) = 2 THEN 0 ELSE s[3] - 1

\* df.index
index(df) == {df.rows[i].t : i \in 1..Len(df.rows)}

\* timestamp = df.index[-1] when None; to_datetime when a string
resolve(df, timestamp) ==
    CASE timestamp.k = "none" -> df.rows[Len(df.rows)].t
      [] timestamp.k = "str" -> to_datetime(timestamp.s)
      [] OTHER -> timestamp.v

\* The position of the row of timestamp t.
loc(df, t) == CHOOSE i \in 1..Len(df.rows) : df.rows[i].t = t

\* The rows whose metric is not NaN (dropna; a comparison with NaN is False).
notna(df) == {i \in 1..Len(df.rows) : df.rows[i].delta_pledge.some}

\* df[df[metric] >= value], within the rows J
higher_or_equal(df, J, value) ==
    {i \in J \cap notna(df) : value.some /\ df.rows[i].delta_pledge.v >= value.v}

\* A mutant of percentileofscore: kind='strict'.
percentileofscore_strict(df, score, legacy) ==
    LET A == notna(df)
        left == Cardinality({i \in A : score.some /\ df.rows[i].delta_pledge.v < score.v})
    IN  IF ~score.some THEN Ratio(0, 0)
        ELSE Ratio(left * 100, Cardinality(A))

\* scipy.stats.percentileofscore(df[metric].dropna(), score), kind='rank'.
\* Of a NaN score scipy from 1.9 on returns NaN; an older one counts the
\* comparisons, all False, and returns 0, or 100 when nothing is left to
\* compare with.
percentileofscore(df, score, legacy) ==
    LET A == notna(df)
        n == Cardinality(A)
        left  == Cardinality({i \in A : score.some /\ df.rows[i].delta_pledge.v < score.v})
        right == Cardinality({i \in A : score.some /\ df.rows[i].delta_pledge.v <= score.v})
        plus1 == IF left < right THEN 1 ELSE 0
    IN  IF ~score.some /\ ~legacy THEN Ratio(0, 0)
        ELSE IF n = 0 THEN Ratio(100, 1)
        ELSE Ratio((left + right + plus1) * 50, n)

\* A mutant of prior_rows: the row of the timestamp counts as a prior one.
prior_rows_inclusive(df, timestamp) == {i \in 1..Len(df.rows) : df.rows[i].t <= timestamp}

\* df[df.index < timestamp]
prior_rows(df, timestamp) == {i \in 1..Len(df.rows) : df.rows[i].t < timestamp}

\* df[metric].rank(ascending=False) at row i: the method is 'average', equal
\* values share the mean of their places; NaN keeps NaN.
rank(df, i) ==
    LET A == notna(df)
        v == df.rows[i].delta_pledge
        greater == Cardinality({j \in A : df.rows[j].delta_pledge.v > v.v})
        equal   == Cardinality({j \in A : df.rows[j].delta_pledge.v = v.v})
    IN  IF ~v.some THEN Ratio(0, 0) ELSE Ratio(2 * greater + equal + 1, 2)

NoRow == <<>>

\* Lines 79-108 of precedence: the row it returns, or the exception of a
\* column the output needs and the series lacks (KeyError) or of infer_freq
\* on fewer than 3 dates (ValueError).
precedence_output(df, timestamp, legacy) ==
    LET i == loc(df, timestamp)
        metric_value_at_timestamp == df.rows[i].delta_pledge
        total_rows == Len(df.rows)
        prior == prior_rows(df, timestamp)
    IN  IF "period" \notin df.columns THEN [res |-> "KeyError", row |-> NoRow]
        ELSE IF Len(df.rows) < 3 THEN [res |-> "ValueError", row |-> NoRow]
        ELSE IF ~({"total_pledge", "total_citizens"} \subseteq df.columns)
        THEN [res |-> "KeyError", row |-> NoRow]
        ELSE [res |-> "ok",
              row |-> [timestamp |-> timestamp,
                       value |-> metric_value_at_timestamp,
                       pct_better_periods |->
                          Ratio(Cardinality(higher_or_equal(df, 1..total_rows,
                                    metric_value_at_timestamp)), total_rows),
                       pct_better_periods_prior |->
                          IF Cardinality(prior) > 0
                          THEN Ratio(Cardinality(higher_or_equal(df, prior,
                                        metric_value_at_timestamp)), Cardinality(prior))
                          ELSE Ratio(0, 1),
                       percentile |->
                          percentileofscore(df, metric_value_at_timestamp, legacy),
                       rank |-> rank(df, i),
                       n_periods |-> total_rows]]

\* A mutant of precedence: a timestamp that is not in the index is answered
\* with the last row.
precedence_unchecked(df, timestamp, metric, legacy) ==
    IF metric \notin df.columns \/ df.index # "DatetimeIndex"
    THEN [res |-> "ValueError", row |-> NoRow]
    ELSE IF resolve(df, timestamp) \notin index(df)
    THEN precedence_output(df, df.rows[Len(df.rows)].t, legacy)
    ELSE precedence_output(df, resolve(df, timestamp), legacy)

precedence(df, timestamp, metric, legacy) ==
    IF metric \notin df.columns THEN [res |-> "ValueError", row |-> NoRow]
    ELSE IF df.index # "DatetimeIndex" THEN [res |-> "ValueError", row |-> NoRow]
    ELSE IF resolve(df, timestamp) \notin index(df)
    THEN [res |-> "ValueError", row |-> NoRow]
    ELSE precedence_output(df, resolve(df, timestamp), legacy)

\* Rows of a series precedence is asked about.
MaxRows == 3

\* The values of the metric: NaN, 1, 2.
MetricValues == {None, Some(1), Some(2)}

\* The rows of a series: at most MaxRows days among the first MaxRows + 1
\* of the month, in the order of the days.
PrecedenceRows ==
    UNION {{r \in [1..n -> [t : 0..MaxRows, delta_pledge : MetricValues]] :
               \A i \in 1..(n - 1) : r[i].t < r[i + 1].t} : n \in 1..MaxRows}

AllColumns == {"delta_pledge", "period", "total_pledge", "total_citizens"}

\* The series: one as get_time_series returns it, one without its period
\* column, one without the metric, one whose index is no DatetimeIndex.
PrecedenceFrames ==
    {[index |-> f[1], columns |-> f[2], rows |-> r] :
        f \in {<<"DatetimeIndex", AllColumns>>,
               <<"DatetimeIndex", AllColumns \ {"period"}>>,
               <<"DatetimeIndex", AllColumns \ {"total_citizens"}>>,
               <<"DatetimeIndex", AllColumns \ {"delta_pledge"}>>,
               <<"RangeIndex", AllColumns>>},
        r \in PrecedenceRows}

Timestamps ==
    {NoTimestamp, DateString(<<2020, 1>>), DateString(<<2020, 1, 3>>)}
    \cup {Timestamp(t) : t \in 0..MaxRows}

Metrics == {"delta_pledge", "delta_citizens"}

NoPrecedenceCall == [timestamp |-> NoTimestamp, metric |-> ""]

NoPrecedenceResult == [res |-> "none", row |-> NoRow]

\* ------------------------------------------------------------------------
\* loader.py: GameVersionParser.parse / parse_to_long / expand_intervals
\* ------------------------------------------------------------------------

\* A date is <<day, hour>>, the day counted from 2020-01-01.  The date_end of
\* a raw interval is empty (NaN), the text '3000-01-01' of a version still
\* current, or a date; its version label is one parse_version reads, or not.

NoDate == [k |-> "nan", v |-> <<0, 0>>]

Open == [k |-> "3000-01-01", v |-> <<0, 0>>]

Date(d, h) == [k |-> "date", v |-> <<d, h>>]

\* Series.dt.normalize(): the midnight of the day
normalize(date) == <<date[1], 0>>

\* The order of two dates.
DateHours(date) == date[1] * 24 + date[2]

\* utils.parse_version(version)[0]: the major number, None when the label has
\* no version number at its end.
parse_version(version) == IF version = "Star_Citizen_3.0" THEN Some(3) ELSE None

\* df.sort_values(["date_start"]): the positions of the rows in the order of
\* their date_start, rows of one date_start in the order they had.
sort_values(df) ==
    LET code == {DateHours(df[i].date_start) * (Len(df) + 1) + i : i \in 1..Len(df)}
        sorted == SortedSeq(code)
    IN  [k \in 1..Len(df) |-> df[sorted[k] % (Len(df) + 1)]]

\* GameVersionParser.parse: the rows without date_end are dropped, the rest is
\* sorted by date_start, an open end becomes today, both dates are normalized,
\* and the rows GameVersions refuses (major is NaN, no int) are left out.
parse(raw, now) ==
    LET HasEnd(r) == r.date_end.k # "nan"
        Accepts(r) == r.major.some
        df == sort_values(SelectSeq(raw, HasEnd))
        parsed == [i \in 1..Len(df) |->
                    [date_start |-> normalize(df[i].date_start),
                     date_end |-> normalize(IF df[i].date_end.k = "3000-01-01"
                                            THEN <<now, 0>> ELSE df[i].date_end.v),
                     patch_count |-> df[i].patch_count,
                     major |-> parse_version(df[i].version)]]
    IN  SelectSeq(parsed, Accepts)

\* A mutant of date_range: the end day is left out.
date_range_half_open(start, end) ==
    [k \in 1..Max({0, (DateHours(end) - DateHours(start) + 23) \div 24}) |->
        <<start[1] + k - 1, start[2]>>]

\* pd.date_range(start, end): start, start + 1 day, ... up to end included.
date_range(start, end) ==
    [k \in 1..Max({0, (DateHours(end) - DateHours(start) + 24) \div 24}) |->
        <<start[1] + k - 1, start[2]>>]

\* GameVersionParser.expand_intervals
expand_intervals(row) ==
    LET range == date_range(row.date_start, row.date_end)
    IN  [k \in 1..Len(range) |->
            [datetime_utc |-> range[k],
             major |-> row.major,
             patch_count |-> row.patch_count,
             days_since_current_patch_launch |->
                (DateHours(range[k]) - DateHours(row.date_start)) \div 24]]

RECURSIVE concat(_)
\* pd.concat(frames, ignore_index=True)
concat(frames) == IF frames = <<>> THEN <<>> ELSE Head(frames) \o concat(Tail(frames))

\* GameVersionParser.parse_to_long
parse_to_long(frame) ==
    concat([i \in 1..Len(frame) |-> expand_intervals(frame[i])])

\* The last day of the model.
MaxDay == 2

\* A raw interval, the patch_count-th of the file.
Interval(start, end, version, patch_count) ==
    [date_start |-> start, date_end |-> end, version |-> version,
     patch_count |-> patch_count]

\* The intervals of a file: from a midnight to no end, an open end or any
\* date; from a noon to a midnight; and one of a label without a number.
Intervals(patch_count) ==
    {Interval(<<d, 0>>, e, "Star_Citizen_3.0", patch_count) :
        d \in 0..MaxDay,
        e \in {NoDate, Open} \cup {Date(x, h) : x \in 0..MaxDay, h \in {0, 12}}}
    \cup {Interval(<<d, 12>>, Date(x, 0), "Star_Citizen_3.0", patch_count) :
            d \in 0..MaxDay, x \in 0..MaxDay}
    \cup {Interval(<<d, 0>>, Date(d, 0), "Star_Citizen_Live", patch_count) :
            d \in 0..MaxDay}

\* The files: one interval, or two.
VersionFiles ==
    {<<a>> : a \in Intervals(1)}
    \cup {<<a, b>> : a \in Intervals(1), b \in Intervals(2)}

\* ------------------------------------------------------------------------
\* TransactionParser.__init__, step by step
\* ------------------------------------------------------------------------

ParserIdle ==
    /\ raw_data = <<>>
    /\ true_date = <<>>
    /\ pc = "idle"
    /\ exception = "none"
    /\ transactions = <<>>
    /\ dataframe = <<>>
    /\ problematic_dates = <<>>

SeriesIdle ==
    /\ series_dataframe = <<>>
    /\ copy_on_write = FALSE
    /\ deepest_time_series = <<>>
    /\ series_pc = "idle"
    /\ call = NoCall
    /\ output = NoOutput
    /\ entry = "none"
    /\ supplied_rules = NoRules
    /\ aggregation_functions = NoRules

MergeIdle ==
    /\ transactions_series = {}
    /\ calendar_events = {}
    /\ game_versions = {}
    /\ merge_pc = "idle"
    /\ merged = NoOutput
    /\ warned = FALSE

PrecedenceIdle ==
    /\ precedence_df = [index |-> "", columns |-> {}, rows |-> <<>>]
    /\ legacy_scipy = FALSE
    /\ precedence_pc = "idle"
    /\ precedence_call = NoPrecedenceCall
    /\ precedence_result = NoPrecedenceResult

VersionsIdle ==
    /\ versions_raw_data = <<>>
    /\ today = 0
    /\ versions = <<>>
    /\ versions_long = None
    /\ versions_pc = "idle"
    /\ versions_errors = 0

StatisticsIdle ==
    /\ hourly = <<>>
    /\ statistics_pc = "idle"
    /\ statistics = NoStatistics

RefreshIdle ==
    /\ clock = 0
    /\ last_refresh_time = datetime_min
    /\ cache_resource = {}
    /\ session_state = [s \in Sessions |-> None]
    /\ returned = FALSE

InitParser ==
    /\ \E inp \in ParserInputs : raw_data = inp.rows /\ true_date = inp.truth
    /\ pc = "start"
    /\ exception = "none"
    /\ transactions = <<>>
    /\ dataframe = <<>>
    /\ problematic_dates = <<>>
    /\ SeriesIdle
    /\ MergeIdle
    /\ PrecedenceIdle
    /\ VersionsIdle
    /\ StatisticsIdle
    /\ RefreshIdle

\* parse_transactions(dataframe): the whole loop over the rows.
ParseTransactions ==
    /\ pc = "start"
    /\ LET r == parse_transactions(raw_data)
       IN  IF r.raised
           THEN /\ pc' = "raised"
                /\ exception' = "TypeError"
                /\ transactions' = <<>>
           ELSE /\ pc' = "parsed"
                /\ exception' = "none"
                /\ transactions' = r.transactions
    /\ UNCHANGED <<raw_data, true_date, dataframe, problematic_dates>>
    /\ UNCHANGED <<seriesVars, mergeVars, precedenceVars, versionVars,
                   statisticsVars, refreshVars>>

\* The loop over t.data and DataFrame.from_records; with no record the frame
\* has no datetime_utc column and the next line is a KeyError.
ValidateRecords ==
    /\ pc = "parsed"
    /\ LET recs == succesful_records(transactions)
       IN  IF recs = <<>>
           THEN /\ pc' = "raised"
                /\ exception' = "KeyError"
                /\ dataframe' = <<>>
           ELSE /\ pc' = "validated"
                /\ exception' = "none"
                /\ dataframe' = recs
    /\ UNCHANGED <<raw_data, true_date, transactions, problematic_dates>>
    /\ UNCHANGED <<seriesVars, mergeVars, precedenceVars, versionVars,
                   statisticsVars, refreshVars>>

\* The pass over the backward steps, then the list of the duplicated dates.
\* sorted() of dates and NaT together is a TypeError.
RepairBackwardSteps ==
    /\ pc = "validated"
    /\ LET col   == correct_backward_steps(datetime_utc(dataframe))
           dates == duplicated_dates(col)
       IN  /\ dataframe' = WithDatetime(dataframe, col)
           /\ IF dates = {}
              THEN /\ pc' = "returned"
                   /\ exception' = "none"
                   /\ problematic_dates' = <<>>
              ELSE IF NaTDate \in dates /\ dates # {NaTDate}
              THEN /\ pc' = "raised"
                   /\ exception' = "TypeError"
                   /\ problematic_dates' = <<>>
              ELSE /\ pc' = "repairing"
                   /\ exception' = "none"
                   /\ problematic_dates' = SortedDates(dates)
    /\ UNCHANGED <<raw_data, true_date, transactions>>
    /\ UNCHANGED <<seriesVars, mergeVars, precedenceVars, versionVars,
                   statisticsVars, refreshVars>>

\* One turn of the loop over problematic_dates.  With no or several points of
\* rupture the message of logger.error is formatted with
\* duplication_event.date(): the event is a datetime.date, which has no date(),
\* and the AttributeError leaves parse_dataframe (NaT has one: a NaT event is
\* only logged).
RepairDuplicateDate ==
    /\ pc = "repairing"
    /\ problematic_dates # <<>>
    /\ LET event == Head(problematic_dates)
           col   == datetime_utc(dataframe)
           n     == Len(point_of_rupture(matching_date_indexes(col, event)))
       IN  IF n # 1 /\ event # NaTDate
           THEN /\ pc' = "raised"
                /\ exception' = "AttributeError"
                /\ UNCHANGED <<dataframe, problematic_dates>>
           ELSE /\ dataframe' = IF n = 1
                                THEN WithDatetime(dataframe,
                                                  correct_duplicated_date(col, event))
                                ELSE dataframe
                /\ problematic_dates' = Tail(problematic_dates)
                /\ pc' = IF Tail(problematic_dates) = <<>> THEN "returned" ELSE "repairing"
                /\ exception' = "none"
    /\ UNCHANGED <<raw_data, true_date, transactions>>
    /\ UNCHANGED <<seriesVars, mergeVars, precedenceVars, versionVars,
                   statisticsVars, refreshVars>>

\* The end of __init__: `transactions` is bound only if parse_dataframe
\* returned; after an exception (caught and logged) the name is unbound and
\* the constructor fails.
Construct ==
    /\ pc \in {"raised", "returned"}
    /\ pc' = IF pc = "returned" THEN "constructed" ELSE "failed"
    /\ UNCHANGED <<raw_data, true_date, exception, transactions, dataframe,
                   problematic_dates>>
    /\ UNCHANGED <<seriesVars, mergeVars, precedenceVars, versionVars,
                   statisticsVars, refreshVars>>

NextParser ==
    \/ ParseTransactions
    \/ ValidateRecords
    \/ RepairBackwardSteps
    \/ RepairDuplicateDate
    \/ Construct

SpecParser == InitParser /\ [][NextParser]_vars

\* ------------------------------------------------------------------------
\* TimeSeriesConstructor: construction, then any number of get
\* ------------------------------------------------------------------------

InitSeries ==
    /\ series_dataframe \in SeriesInputs
    /\ copy_on_write \in BOOLEAN
    /\ deepest_time_series = <<>>
    /\ series_pc = "new"
    /\ call = NoCall
    /\ output = NoOutput
    /\ entry = "none"
    /\ \/ supplied_rules = Rules(TransactionRules)
       \/ /\ supplied_rules \in {NoRules, Rules(SaleRules)}
          /\ series_dataframe = EndToEnd
    /\ aggregation_functions = supplied_rules
    /\ ParserIdle
    /\ MergeIdle
    /\ PrecedenceIdle
    /\ VersionsIdle
    /\ StatisticsIdle
    /\ RefreshIdle

\* TimeSeriesConstructor.__init__: process()
Process ==
    /\ series_pc \in {"new", "refused"}
    /\ aggregation_functions' = rules_or_default(aggregation_functions)
    /\ deepest_time_series' = process(series_dataframe, copy_on_write)
    /\ series_pc' = "processed"
    /\ UNCHANGED <<series_dataframe, copy_on_write, call, output, entry, supplied_rules>>
    /\ UNCHANGED <<parserVars, mergeVars, precedenceVars, versionVars,
                   statisticsVars, refreshVars>>

\* A mutant of Get: the frame get derives is kept as the base series.
GetInPlace ==
    /\ series_pc \in {"processed", "served"}
    /\ \E freq \in Offsets, last_periods \in LastPeriods, atm \in BOOLEAN :
          /\ call' = [freq |-> freq, last_periods |-> last_periods,
                      append_time_metrics |-> atm]
          /\ output' = get(aggregation_functions.rules, deepest_time_series, freq,
                           last_periods, atm)
    /\ deepest_time_series' = IF output'.res = "ok" THEN output'.series
                              ELSE deepest_time_series
    /\ series_pc' = "served"
    /\ entry' = "get"
    /\ UNCHANGED <<series_dataframe, copy_on_write, supplied_rules, aggregation_functions>>
    /\ UNCHANGED <<parserVars, mergeVars, precedenceVars, versionVars,
                   statisticsVars, refreshVars>>

\* get(freq, last_periods, append_time_metrics): the frame it returns is built
\* on a copy of the columns of the base series.
Get ==
    /\ series_pc \in {"processed", "served"}
    /\ \E freq \in Offsets, last_periods \in LastPeriods, atm \in BOOLEAN :
          /\ call' = [freq |-> freq, last_periods |-> last_periods,
                      append_time_metrics |-> atm]
          /\ output' = get(aggregation_functions.rules, deepest_time_series, freq,
                           last_periods, atm)
    /\ series_pc' = "served"
    /\ entry' = "get"
    /\ UNCHANGED <<series_dataframe, copy_on_write, deepest_time_series,
                   supplied_rules, aggregation_functions>>
    /\ UNCHANGED <<parserVars, mergeVars, precedenceVars, versionVars,
                   statisticsVars, refreshVars>>

\* FileLoader.get_time_series(freq, append_time_metrics), on a loader whose
\* time_series_constructor is still None or on one that has it.
GetTimeSeriesOfLoader ==
    /\ \E freq \in Offsets, atm \in BOOLEAN :
          /\ call' = [freq |-> freq, last_periods |-> 30, append_time_metrics |-> atm]
          /\ output' = FileLoader_get_time_series(series_pc \notin {"new", "refused"},
                                                  aggregation_functions.rules,
                                                  deepest_time_series, freq, atm)
    /\ entry' = "get_time_series"
    /\ series_pc' = IF series_pc \in {"new", "refused"} THEN "refused" ELSE "served"
    /\ UNCHANGED <<series_dataframe, copy_on_write, deepest_time_series,
                   supplied_rules, aggregation_functions>>
    /\ UNCHANGED <<parserVars, mergeVars, precedenceVars, versionVars,
                   statisticsVars, refreshVars>>

NextSeries ==
    \/ Process
    \/ Get
    \/ GetTimeSeriesOfLoader

SpecSeries == InitSeries /\ [][NextSeries]_vars

\* ------------------------------------------------------------------------
\* CompleteTimeSeries.get_time_series on the series of the three parsers
\* ------------------------------------------------------------------------

InitMerge ==
    /\ transactions_series \in PeriodRanges
    /\ calendar_events \in PeriodRanges
    /\ game_versions \in PeriodRanges
    /\ merge_pc = "ready"
    /\ merged = NoOutput
    /\ warned = FALSE
    /\ ParserIdle
    /\ SeriesIdle
    /\ PrecedenceIdle
    /\ VersionsIdle
    /\ StatisticsIdle
    /\ RefreshIdle

GetTimeSeries ==
    /\ merge_pc = "ready"
    /\ LET r == get_time_series(transactions_series, calendar_events, game_versions)
       IN  /\ merged' = [res |-> r.res, series |-> r.series]
           /\ warned' = r.warned
    /\ merge_pc' = "done"
    /\ UNCHANGED <<transactions_series, calendar_events, game_versions>>
    /\ UNCHANGED <<parserVars, seriesVars, precedenceVars, versionVars,
                   statisticsVars, refreshVars>>

NextMerge == GetTimeSeries

SpecMerge == InitMerge /\ [][NextMerge]_vars

\* ------------------------------------------------------------------------
\* precedence asked about a series
\* ------------------------------------------------------------------------

InitPrecedence ==
    /\ precedence_df \in PrecedenceFrames
    /\ legacy_scipy \in BOOLEAN
    /\ precedence_pc = "ready"
    /\ precedence_call = NoPrecedenceCall
    /\ precedence_result = NoPrecedenceResult
    /\ ParserIdle
    /\ SeriesIdle
    /\ MergeIdle
    /\ VersionsIdle
    /\ StatisticsIdle
    /\ RefreshIdle

\* precedence(df, timestamp, metric): a query, the series is left as it is.
Precedence ==
    /\ precedence_pc \in {"ready", "returned"}
    /\ \E timestamp \in Timestamps, metric \in Metrics :
          /\ precedence_call' = [timestamp |-> timestamp, metric |-> metric]
          /\ precedence_result' = precedence(precedence_df, timestamp, metric, legacy_scipy)
    /\ precedence_pc' = "returned"
    /\ UNCHANGED <<precedence_df, legacy_scipy>>
    /\ UNCHANGED <<parserVars, seriesVars, mergeVars, versionVars,
                   statisticsVars, refreshVars>>

NextPrecedence == Precedence

SpecPrecedence == InitPrecedence /\ [][NextPrecedence]_vars

\* ------------------------------------------------------------------------
\* GameVersionParser.__init__, step by step
\* ------------------------------------------------------------------------

InitVersions ==
    /\ versions_raw_data \in VersionFiles
    /\ today \in {MaxDay - 1, MaxDay}
    /\ versions = <<>>
    /\ versions_long = None
    /\ versions_pc = "start"
    /\ versions_errors = 0
    /\ ParserIdle
    /\ SeriesIdle
    /\ MergeIdle
    /\ PrecedenceIdle
    /\ StatisticsIdle
    /\ RefreshIdle

\* self.versions = self.parse(...); an empty frame raises a ValueError, which
\* is caught and logged.
ParseVersions ==
    /\ versions_pc = "start"
    /\ versions' = parse(versions_raw_data, today)
    /\ versions_errors' = IF versions' = <<>> THEN versions_errors + 1 ELSE versions_errors
    /\ versions_pc' = "parsed"
    /\ UNCHANGED <<versions_raw_data, today, versions_long>>
    /\ UNCHANGED <<parserVars, seriesVars, mergeVars, precedenceVars,
                   statisticsVars, refreshVars>>

\* self.versions_long = self.parse_to_long(...); on the empty frame the call
\* raises, which is caught and logged, and versions_long stays None.
ParseToLong ==
    /\ versions_pc = "parsed"
    /\ IF versions = <<>>
       THEN /\ versions_long' = None
            /\ versions_errors' = versions_errors + 1
       ELSE /\ versions_long' = Some(parse_to_long(versions))
            /\ UNCHANGED versions_errors
    /\ versions_pc' = "expanded"
    /\ UNCHANGED <<versions_raw_data, today, versions>>
    /\ UNCHANGED <<parserVars, seriesVars, mergeVars, precedenceVars,
                   statisticsVars, refreshVars>>

\* The end of __init__: TimeSeriesConstructor(dataframe=self.versions_long)
\* reads the index of the frame, and fails on None.
ConstructVersions ==
    /\ versions_pc = "expanded"
    /\ versions_pc' = IF versions_long.some THEN "constructed" ELSE "failed"
    /\ UNCHANGED <<versions_raw_data, today, versions, versions_long, versions_errors>>
    /\ UNCHANGED <<parserVars, seriesVars, mergeVars, precedenceVars,
                   statisticsVars, refreshVars>>

NextVersions ==
    \/ ParseVersions
    \/ ParseToLong
    \/ ConstructVersions

SpecVersions == InitVersions /\ [][NextVersions]_vars

\* ------------------------------------------------------------------------
\* main_statistics read on an hourly series
\* ------------------------------------------------------------------------

InitStatistics ==
    /\ hourly \in HourlyInputs
    /\ statistics_pc = "ready"
    /\ statistics = NoStatistics
    /\ ParserIdle
    /\ SeriesIdle
    /\ MergeIdle
    /\ PrecedenceIdle
    /\ VersionsIdle
    /\ RefreshIdle

\* The property main_statistics is read.
MainStatistics ==
    /\ statistics_pc = "ready"
    /\ statistics' = main_statistics(hourly)
    /\ statistics_pc' = "done"
    /\ UNCHANGED hourly
    /\ UNCHANGED <<parserVars, seriesVars, mergeVars, precedenceVars, versionVars,
                   refreshVars>>

NextStatistics == MainStatistics

SpecStatistics == InitStatistics /\ [][NextStatistics]_vars

\* ------------------------------------------------------------------------
\* The sessions of the application and the refresh gate (data.py)
\* ------------------------------------------------------------------------

InitRefresh ==
    /\ clock = 0
    /\ last_refresh_time = datetime_min
    /\ cache_resource = {}
    /\ session_state = [s \in Sessions |-> None]
    /\ returned = FALSE
    /\ ParserIdle
    /\ SeriesIdle
    /\ MergeIdle
    /\ PrecedenceIdle
    /\ VersionsIdle
    /\ StatisticsIdle

\* Time passes between two calls; it need not.
Tick ==
    /\ \E d \in Steps : clock + d <= MaxClock /\ clock' = clock + d
    /\ UNCHANGED <<last_refresh_time, cache_resource, session_state, returned>>
    /\ UNCHANGED <<parserVars, seriesVars, mergeVars, precedenceVars, versionVars,
                   statisticsVars>>

\* initialize_session_state() in a session without "cts": check_and_set, then
\* load_complete_time_series(TimeChecker.last_refresh_time), which loads once
\* for a key, and populate_session_state.
InitializeSessionState(s) ==
    /\ ~session_state[s].some
    /\ LET checked == check_and_set(last_refresh_time, clock)
       IN  /\ returned' = checked.returned
           /\ last_refresh_time' = checked.last_refresh_time
           /\ cache_resource' = cache_resource \cup {checked.last_refresh_time}
           /\ session_state' = [session_state EXCEPT ![s] = Some(checked.last_refresh_time)]
    /\ UNCHANGED clock
    /\ UNCHANGED <<parserVars, seriesVars, mergeVars, precedenceVars, versionVars,
                   statisticsVars>>

\* refresh_session_state(), the button of the header of an initialised
\* session: TimeChecker.set(datetime.now()), then the load and the session
\* state as above.
RefreshSessionState(s) ==
    /\ session_state[s].some
    /\ last_refresh_time' = clock
    /\ cache_resource' = cache_resource \cup {clock}
    /\ session_state' = [session_state EXCEPT ![s] = Some(clock)]
    /\ UNCHANGED <<clock, returned>>
    /\ UNCHANGED <<parserVars, seriesVars, mergeVars, precedenceVars, versionVars,
                   statisticsVars>>

NextRefresh ==
    \/ Tick
    \/ \E s \in Sessions : InitializeSessionState(s)
    \/ \E s \in Sessions : RefreshSessionState(s)

SpecRefresh == InitRefresh /\ [][NextRefresh]_vars

\* ------------------------------------------------------------------------
\* Properties of the validation of a batch (models.py, loader.py)
\* ------------------------------------------------------------------------

\* The validation of the batch is over (the frame is built, or an exception
\* has left parse_dataframe).
BatchDone == pc \notin {"start", "parsed"}

\* Raw row i is a row of the validated frame.
Accepted(i) == \E k \in 1..Len(dataframe) : dataframe[k].row = i

\* The row of the validated frame that raw row i became.
FrameRow(i) == dataframe[CHOOSE k \in 1..Len(dataframe) : dataframe[k].row = i]

\* The parsed record of raw row i.
TransactionOf(i) ==
    transactions[CHOOSE k \in 1..Len(transactions) : transactions[k].row = i].rec

\* Raw row i passes HourlyTransactions and ValidatedTransactionData.
ValidRow(i) ==
    LET o == HourlyTransactions(raw_data[i])
    IN  o.res = "ok" /\ ValidatedTransactionData(data(o.rec))

\* A raw cell that holds no value.
Absent(c) == c.k \in {"missing", "none", "nan"}

\* A raw cell that holds a number >= 0 (0 included).
NonNegative(c) == c.k = "num" /\ c.v >= 0

\* The cells other than the totals and their corrections are accepted ones.
PlainRest(r) ==
    /\ IsDatetime(r.datetime_utc)
    /\ r.delta_pledge.k = "num"
    /\ r.delta_citizens.k = "num"

\* Both columns of a total are in the frame, each cell a number >= 0 or empty.
PlainTotal(primary, correction) ==
    /\ primary.k # "missing" /\ (Absent(primary) \/ NonNegative(primary))
    /\ Absent(correction) \/ NonNegative(correction)

\* C6: a row that fails validation for any reason (a row with neither a total
\* nor its correction included) is left out without aborting the batch: once
\* the batch is validated, the validated output is exactly the valid rows, in
\* the original row order.
C6_BatchNotAborted ==
    BatchDone =>
        [k \in 1..Len(dataframe) |-> dataframe[k].row]
            = SortedSeq({i \in 1..Len(raw_data) : ValidRow(i)})

\* C7 (as the code has it): the exposed total is the correction whenever the
\* correction is present, and the primary total only when the correction is
\* absent, for the pledge and for the citizens.
C7_CorrectionTakesPrecedence ==
    pc = "validated" =>
        \A k \in 1..Len(dataframe) :
            LET t == TransactionOf(dataframe[k].row)
            IN  /\ dataframe[k].total_pledge =
                      IF t.data_correction_total_pledge.some
                      THEN t.data_correction_total_pledge.v ELSE t.total_pledge.v
                /\ dataframe[k].total_citizens =
                      IF t.data_correction_total_citizen.some
                      THEN t.data_correction_total_citizen.v ELSE t.total_citizens.v

\* C7 (as the claim has it): the exposed total is the primary total whenever
\* the primary is present, and the correction exactly when the primary is
\* absent and the correction present.
C7_PrimaryTakesPrecedence ==
    pc = "validated" =>
        \A k \in 1..Len(dataframe) :
            LET t == TransactionOf(dataframe[k].row)
            IN  /\ dataframe[k].total_pledge =
                      IF t.total_pledge.some
                      THEN t.total_pledge.v ELSE t.data_correction_total_pledge.v
                /\ dataframe[k].total_citizens =
                      IF t.total_citizens.some
                      THEN t.total_citizens.v ELSE t.data_correction_total_citizen.v

\* A validated row whose primary total and correction are both present and
\* differ, exposing the correction.
C7_Witness ==
    /\ pc = "validated"
    /\ \E k \in 1..Len(dataframe) :
          LET t == TransactionOf(dataframe[k].row)
          IN  /\ t.total_pledge.some /\ t.data_correction_total_pledge.some
              /\ t.total_pledge.v # t.data_correction_total_pledge.v
              /\ dataframe[k].total_pledge = t.data_correction_total_pledge.v

\* C8: a record is rejected for a missing total if and only if the primary
\* total and its correction are both absent; presence, not value, decides (a
\* total of 0 is accepted), and no accepted record has an absent total
\* replaced by zero.
C8_PresenceDecides ==
    BatchDone =>
        \A i \in 1..Len(raw_data) :
            LET r == raw_data[i]
            IN  (/\ PlainRest(r)
                 /\ PlainTotal(r.total_pledge, r.data_correction_total_pledge)
                 /\ PlainTotal(r.total_citizens, r.data_correction_total_citizen))
                => /\ Accepted(i) <=>
                        /\ ~(Absent(r.total_pledge) /\ Absent(r.data_correction_total_pledge))
                        /\ ~(Absent(r.total_citizens) /\ Absent(r.data_correction_total_citizen))
                   /\ Accepted(i) =>
                        /\ FrameRow(i).total_pledge \in
                              {c.v * Cents : c \in {x \in {r.total_pledge,
                                  r.data_correction_total_pledge} : ~Absent(x)}}
                        /\ FrameRow(i).total_citizens \in
                              {c.v : c \in {x \in {r.total_citizens,
                                  r.data_correction_total_citizen} : ~Absent(x)}}

\* An optional cell that is empty: the empty string, or NaN.
EmptyCell(c) == c \in {Str(<<>>), NaN}

\* C9: an optional numeric field whose raw value is the empty string or NaN
\* resolves to absent: the record is not rejected because of it, and the field
\* is not read as zero (the exposed total is the primary one).
C9_EmptyOptionalIsAbsent ==
    BatchDone =>
        \A i \in 1..Len(raw_data) :
            LET r == raw_data[i]
            IN  (/\ PlainRest(r)
                 /\ NonNegative(r.total_pledge) /\ r.total_pledge.v > 0
                 /\ NonNegative(r.total_citizens) /\ r.total_citizens.v > 0
                 /\ EmptyCell(r.data_correction_total_pledge)
                 /\ EmptyCell(r.data_correction_total_citizen)
                 /\ \A j \in 1..Len(raw_data) : check_pledge_and_citizens(raw_data[j]))
                => /\ Accepted(i)
                   /\ FrameRow(i).total_pledge = r.total_pledge.v * Cents
                   /\ FrameRow(i).total_citizens = r.total_citizens.v

\* ------------------------------------------------------------------------
\* Properties of the chronology repair (loader.py)
\* ------------------------------------------------------------------------

\* The instant raw row i was really recorded at.
TrueTimestamp(i) ==
    <<true_date[i][1], true_date[i][2], true_date[i][3], Hour(raw_data[i].datetime_utc)>>

\* The rows are in the order they were recorded, one row per hour at most.
Chronological ==
    \A i \in 1..Len(raw_data) : \A j \in (i + 1)..Len(raw_data) :
        TsKey(TrueTimestamp(i)) < TsKey(TrueTimestamp(j))

\* Two input records claim the same calendar date more than 24 rows apart.
SameClaimFarApart ==
    \E i \in 1..Len(raw_data) : \E j \in 1..Len(raw_data) :
        /\ j - i > 24
        /\ DateOf(raw_data[i].datetime_utc) = DateOf(raw_data[j].datetime_utc)

\* C3: after parse_dataframe, whenever two input records claim the same
\* calendar date more than 24 rows apart in the original order, no two records
\* of different true calendar dates have the same output timestamp.
C3_NoCollapsedDates ==
    (pc \in {"returned", "constructed"} /\ Chronological /\ SameClaimFarApart) =>
        \A a \in 1..Len(dataframe) : \A b \in 1..Len(dataframe) :
            true_date[dataframe[a].row] # true_date[dataframe[b].row]
                => dataframe[a].datetime_utc # dataframe[b].datetime_utc

\* The turn of the loop about to run finds exactly one point of rupture.
OneRupture ==
    /\ pc = "repairing"
    /\ problematic_dates # <<>>
    /\ Len(point_of_rupture(matching_date_indexes(datetime_utc(dataframe),
                                                  Head(problematic_dates)))) = 1

\* The rows before, and from, the point of rupture of the date about to be
\* repaired.
EarlierIsland ==
    LET m == matching_date_indexes(datetime_utc(dataframe), Head(problematic_dates))
    IN  {i \in Range(m) : i < point_of_rupture(m)[1]}

LaterIsland ==
    LET m == matching_date_indexes(datetime_utc(dataframe), Head(problematic_dates))
    IN  {i \in Range(m) : i >= point_of_rupture(m)[1]}

\* This step leaves the timestamps of rows I as they are / writes them with
\* day and month in each other's place.
Unchanged(I) == \A i \in I : dataframe'[i].datetime_utc = dataframe[i].datetime_utc

Swapped(I) ==
    \A i \in I : dataframe'[i].datetime_utc
                    = <<Year(dataframe[i].datetime_utc), Day(dataframe[i].datetime_utc),
                        Month(dataframe[i].datetime_utc), Hour(dataframe[i].datetime_utc)>>

C5_AmbiguousIsNotFatal ==
    [][(/\ pc = "repairing"
        /\ problematic_dates # <<>>
        /\ Len(point_of_rupture(matching_date_indexes(datetime_utc(dataframe),
                                                      Head(problematic_dates)))) # 1)
       => /\ pc' \in {"repairing", "returned"}
          /\ dataframe' = dataframe
          /\ problematic_dates' = Tail(problematic_dates)
      ]_vars

\* The rows of the date about to be repaired.
Matching ==
    Range(matching_date_indexes(datetime_utc(dataframe), Head(problematic_dates)))

\* The rows of that date that come d positions or more after the row of that
\* date before them.
RupturesAt(d) ==
    {j \in Matching :
        \E i \in Matching : /\ i < j
                            /\ j - i >= d
                            /\ \A k \in Matching : ~(i < k /\ k < j)}

\* This turn of the loop splits the rows of the date at row r and rewrites the
\* rows of one side only.
SplitAt(r) ==
    \/ Swapped({i \in Matching : i < r}) /\ Unchanged({i \in Matching : i >= r})
    \/ Unchanged({i \in Matching : i < r}) /\ Swapped({i \in Matching : i >= r})

\* This turn of the loop repairs with the rows d positions or more after the
\* row of the same date before them as points of rupture: with one such row
\* the date is split there, else no timestamp is rewritten.
RepairsWithRupturesAt(d) ==
    (pc = "repairing" /\ problematic_dates # <<>>) =>
        /\ Cardinality(RupturesAt(d)) = 1 =>
              \E r \in RupturesAt(d) :
                  SplitAt(r) /\ dataframe' # dataframe
        /\ Cardinality(RupturesAt(d)) # 1 => dataframe' = dataframe

NegativeSteps ==
    SortedSeq({i \in 2..Len(dataframe) :
        /\ dataframe[i].datetime_utc # NaT
        /\ dataframe[i - 1].datetime_utc # NaT
        /\ TsKey(dataframe[i].datetime_utc) < TsKey(dataframe[i - 1].datetime_utc)})

\* The day of the timestamp at the j-th negative step is the month of the
\* timestamp at the next one.
DayIsNextMonth(j) ==
    /\ j < Len(NegativeSteps)
    /\ Day(dataframe[NegativeSteps[j]].datetime_utc)
          = Month(dataframe[NegativeSteps[j + 1]].datetime_utc)

\* The rows s..e-1 of the pairs (s, e) = (1st, 2nd), (3rd, 4th), ... of the
\* negative steps for which the test holds at s and fails at e.
SpanRows ==
    UNION {NegativeSteps[j]..(NegativeSteps[j + 1] - 1) :
           j \in {k \in 1..(Len(NegativeSteps) - 1) :
                     k % 2 = 1 /\ DayIsNextMonth(k) /\ ~DayIsNextMonth(k + 1)}}

\* C25: the backward-step pass takes the negative steps in consecutive
\* non-overlapping pairs (s, e); where the day at s is the month at e and the
\* same test fails for e, exactly the rows s..e-1 get day and month swapped;
\* every other row, the unpaired last negative step included, keeps its
\* timestamp.
C25_BackwardStepPairs ==
    [][pc = "validated" => Swapped(SpanRows) /\ Unchanged((1..Len(dataframe)) \ SpanRows)]_vars

\* ------------------------------------------------------------------------
\* Properties of the resampled series (time_series.py)
\* ------------------------------------------------------------------------

\* The frequency the last get resampled at.
Resampled == IF Head(call.freq) = "W" THEN Append(call.freq, "SUN") ELSE call.freq

\* The rows of the base series in the bins up to the one labelled t.
UpTo(t) ==
    {j \in 1..Len(deepest_time_series) : Label(Resampled, deepest_time_series[j].t) <= t}

\* C1: for every frequency and every period p of the series get returns, the
\* delta_pledge of p is total_pledge at p minus total_pledge at the period
\* before (total_pledge at p for the first period), and the total at p is the
\* sum of all the base deltas up to the end of p.
C1_DeltasAndTotalsAgree ==
    output.res = "ok" =>
        \A k \in 1..Len(output.series) :
            /\ output.series[k].delta_pledge =
                  output.series[k].total_pledge
                      - (IF k = 1 THEN 0 ELSE output.series[k - 1].total_pledge)
            /\ output.series[k].total_pledge =
                  SumOver(deepest_time_series, "delta_pledge", UpTo(output.series[k].t))

\* A daily series of three periods is returned whose last period has a delta
\* that is not 0.
C1_Witness ==
    /\ output.res = "ok"
    /\ call.freq = <<"D">>
    /\ Len(output.series) = 3
    /\ output.series[3].delta_pledge # 0
    /\ output.series[1].delta_pledge # 0

\* Every delta of the base series is a number and none is negative: the totals
\* of the records never decrease.
TotalsNeverDecrease ==
    \A j \in 1..Len(deepest_time_series) :
        /\ deepest_time_series[j].delta_pledge.some
        /\ deepest_time_series[j].delta_pledge.v >= 0
        /\ deepest_time_series[j].delta_citizens.some
        /\ deepest_time_series[j].delta_citizens.v >= 0

\* Period k of the returned series is the first of its calendar year.
FirstOfYear(k) ==
    k = 1 \/ YearOf(output.series[k].t) # YearOf(output.series[k - 1].t)

\* C10: for every frequency, in the series get returns, the in-year total at
\* the first period of each calendar year is that period's delta, and within
\* a calendar year the in-year total never decreases from a period to the
\* next (stated for records whose totals never decrease).
C10_InYearTotals ==
    (output.res = "ok" /\ TotalsNeverDecrease) =>
        \A k \in 1..Len(output.series) :
            LET p == output.series[k]
            IN  /\ FirstOfYear(k) =>
                      /\ p.total_pledge_in_year = Some(p.delta_pledge)
                      /\ p.total_citizens_in_year = Some(p.delta_citizens)
                /\ ~FirstOfYear(k) =>
                      /\ p.total_pledge_in_year.some
                      /\ output.series[k - 1].total_pledge_in_year.some
                      /\ p.total_pledge_in_year.v
                            >= output.series[k - 1].total_pledge_in_year.v
                      /\ p.total_citizens_in_year.some
                      /\ output.series[k - 1].total_citizens_in_year.some
                      /\ p.total_citizens_in_year.v
                            >= output.series[k - 1].total_citizens_in_year.v

RECURSIVE DeltaSum(_, _, _)
\* The sum of column col of the returned series over the periods J.
DeltaSum(ts, col, J) ==
    IF J = {} THEN 0
    ELSE LET j == CHOOSE x \in J : TRUE
         IN  ts[j][col] + DeltaSum(ts, col, J \ {j})

\* The window of period k: the last_periods periods before k, k excluded.
Prior(k) == {j \in 1..(k - 1) : j >= k - call.last_periods}

\* C11: for every period k and window N = last_periods, the trailing rolling
\* column at k is the sum of the deltas of the N periods before k (fewer at
\* the start of the series) and never holds the delta of k itself; at the
\* first period, which has no period before it, the value is undefined.
C11_RollingExcludesCurrent ==
    output.res = "ok" =>
        \A k \in 1..Len(output.series) :
            LET p == output.series[k]
            IN  /\ k = 1 => ~p.pledge_prior_periods.some /\ ~p.citizens_prior_periods.some
                /\ k > 1 =>
                      /\ p.pledge_prior_periods =
                            Some(DeltaSum(output.series, "delta_pledge", Prior(k)))
                      /\ p.citizens_prior_periods =
                            Some(DeltaSum(output.series, "delta_citizens", Prior(k)))

\* A series is returned with a window of one period and a period whose rolling
\* sum is neither its own delta nor the sum of all the deltas before it.
C11_Witness ==
    /\ output.res = "ok"
    /\ call.last_periods = 1
    /\ \E k \in 3..Len(output.series) :
          LET p == output.series[k]
          IN  /\ p.pledge_prior_periods.some
              /\ p.pledge_prior_periods.v # p.delta_pledge
              /\ p.pledge_prior_periods.v # DeltaSum(output.series, "delta_pledge", 1..(k - 1))

\* C18: built on two records of one day an hour apart, (t0, total 100) and
\* (t0 + 1h, total 150), the series asked at the daily frequency with the
\* default arguments of get is one row with delta_pledge = 150 and
\* total_pledge = 150.
C18_EndToEndDaily ==
    (/\ series_pc = "served"
     /\ series_dataframe = EndToEnd
     /\ call = [freq |-> <<"D">>, last_periods |-> 30, append_time_metrics |-> TRUE])
    => /\ output.res = "ok"
       /\ Len(output.series) = 1
       /\ output.series[1].delta_pledge = 150
       /\ output.series[1].total_pledge = 150

\* The timestamp is the midnight that begins a Sunday (day 1 of the model is
\* Sunday 30 December 2018).
IsSunday(t) == t % 24 = 0 /\ (t \div 24) % 7 = 1

\* C19: for every frequency argument that begins with 'W', 'W-SUN' included,
\* get returns a weekly series that is not empty and whose every period ends
\* on a Sunday (asked without the time metrics, with a window of 1 or more).
C19_WeeklyEndsOnSunday ==
    (/\ series_pc = "served"
     /\ Head(call.freq) = "W"
     /\ ~call.append_time_metrics
     /\ call.last_periods >= 1)
    => /\ output.res = "ok"
       /\ output.series # <<>>
       /\ \A k \in 1..Len(output.series) : IsSunday(output.series[k].t)

\* process has built the base series.
Processed == series_pc \in {"processed", "served"}

\* C20: after process the base series has one row per timestamp, in strictly
\* increasing order, for every hour from the earliest record to the latest;
\* and at the timestamp of a record the row holds the totals of the last of
\* the records of that timestamp, in input order.
C20_BaseSeriesGapFree ==
    Processed =>
        LET base == deepest_time_series
            hours == {series_dataframe[i].t : i \in 1..Len(series_dataframe)}
        IN  /\ Len(base) = Max(hours) - Min(hours) + 1
            /\ \A j \in 1..Len(base) : base[j].t = Min(hours) + j - 1
            /\ \A i \in 1..Len(series_dataframe) :
                  LET r == series_dataframe[i]
                      later == {k \in i..Len(series_dataframe) : series_dataframe[k].t = r.t}
                      kept == series_dataframe[Max(later)]
                      row == base[r.t - Min(hours) + 1]
                  IN  /\ row.total_pledge = kept.total_pledge * Scale(series_dataframe)
                      /\ row.total_citizens = kept.total_citizens * Scale(series_dataframe)

\* The base series is built on a record and, a day later, two records of
\* one timestamp with different totals.
C20_Witness ==
    /\ Processed
    /\ series_dataframe = GapAndDuplicate
    /\ Len(deepest_time_series) = 26
    /\ deepest_time_series[26].total_pledge # deepest_time_series[1].total_pledge

\* C21: FileLoader.get_time_series raises when the series constructor has not
\* been built; when it has, an exception raised while resampling never goes
\* through: it is caught and an empty series is returned, and a series that
\* get returns is returned as it is.
C21_LoaderCatchesErrors ==
    /\ series_pc = "refused" => output.res = "ValueError"
    /\ series_pc = "served" /\ entry = "get_time_series" =>
           LET time_series == get(aggregation_functions.rules, deepest_time_series,
                                  call.freq, 30, call.append_time_metrics)
           IN  /\ output.res = "ok"
               /\ time_series.res = "ok" => output = time_series
               /\ time_series.res # "ok" => output.series = <<>>

\* The loader was asked for the frequency 'W-SUN', which get refuses, and
\* returned an empty frame.
C21_Witness ==
    /\ entry = "get_time_series"
    /\ series_pc = "served"
    /\ call.freq = <<"W", "SUN">>
    /\ get(aggregation_functions.rules, deepest_time_series, call.freq, 30,
           call.append_time_metrics).res = "ValueError"
    /\ output = [res |-> "ok", series |-> <<>>]

\* C23: whatever get calls were made, deepest_time_series is the series the
\* constructor built, and what a get call returns is decided by the built
\* series and the call's (freq, last_periods, append_time_metrics) alone: two
\* calls with the same arguments return equal series, whatever was called in
\* between.
C23_GetIsPure ==
    series_pc = "served" =>
        /\ deepest_time_series = process(series_dataframe, copy_on_write)
        /\ entry = "get" =>
              output = get(aggregation_functions.rules,
                           process(series_dataframe, copy_on_write),
                           call.freq, call.last_periods, call.append_time_metrics)

\* A get call returned a series with columns the base series has not got.
C23_Witness ==
    /\ series_pc = "served"
    /\ entry = "get"
    /\ output.res = "ok"
    /\ Len(output.series) >= 2
    /\ columns(output.series) # columns(deepest_time_series)

\* The delta the records supply for the hour of row i of the base series, if
\* they supply one.
Supplied(col, i) ==
    LET recs == {k \in 1..Len(series_dataframe) :
                    /\ series_dataframe[k].t = deepest_time_series[i].t
                    /\ col \in DOMAIN series_dataframe[k]}
    IN  IF recs = {} THEN None ELSE Some(series_dataframe[Max(recs)][col])

\* The first difference of the total at row i of the base series, the total
\* itself at the first row.
FirstDifference(col, i) ==
    IF i = 1 THEN deepest_time_series[1][col]
    ELSE deepest_time_series[i][col] - deepest_time_series[i - 1][col]

\* C29: only a missing delta is recomputed.  Where the records supply
\* delta_pledge / delta_citizens the base series keeps the supplied value;
\* where they do not, the delta is the first difference of its total, the
\* first period's delta being the first period's total.
C29_SuppliedDeltasAreKept ==
    Processed =>
        \A i \in 1..Len(deepest_time_series) :
            /\ deepest_time_series[i].delta_pledge =
                  IF Supplied("delta_pledge", i).some
                  THEN Some(Supplied("delta_pledge", i).v * Scale(series_dataframe))
                  ELSE Some(FirstDifference("total_pledge", i))
            /\ deepest_time_series[i].delta_citizens =
                  IF Supplied("delta_citizens", i).some
                  THEN Some(Supplied("delta_citizens", i).v * Scale(series_dataframe))
                  ELSE Some(FirstDifference("total_citizens", i))

\* A rule the series needs is missing: no rules were supplied, or a rule
\* names a column the base series has not got.
RuleMissing ==
    \/ ~supplied_rules.some
    \/ \E item \in supplied_rules.rules : item[1] \notin columns(deepest_time_series)

\* C22: a series requested while a required aggregation rule is missing is
\* not served: the call raises, neither default rules nor an empty series
\* take the place of the exception.
C22_MissingRuleRaises ==
    series_pc = "served" /\ RuleMissing => output.res \notin {"ok", "none"}

\* ------------------------------------------------------------------------
\* Properties of precedence (observations.py)
\* ------------------------------------------------------------------------

\* precedence returned a row.
Answered == precedence_pc = "returned" /\ precedence_result.res = "ok"

\* The values of the metric over the series that are numbers, row by row.
Numbers == {i \in 1..Len(precedence_df.rows) : precedence_df.rows[i].delta_pledge.some}

\* The value of the metric at row i.
ValueAt(i) == precedence_df.rows[i].delta_pledge.v

\* The row precedence was asked about.
Asked == loc(precedence_df, precedence_result.row.timestamp)

\* The value asked about is a number and no value of the series is above it.
AskedIsMaximum ==
    /\ Asked \in Numbers
    /\ \A i \in Numbers : ValueAt(i) <= ValueAt(Asked)

\* The periods that hold the value asked about.
Sharing == {i \in Numbers : ValueAt(i) = ValueAt(Asked)}

\* C12 (as the code has it): when the value at the timestamp asked about is
\* the maximum of the metric, held by m of the n periods that have a number,
\* the percentile is 100 * (2n - m + 1) / 2n: it is 100 when no other period
\* shares the maximum and below 100 when one does.
C12_SoleMaximumIsTop ==
    (Answered /\ AskedIsMaximum) =>
        LET pct == precedence_result.row.percentile
            n == Cardinality(Numbers)
            m == Cardinality(Sharing)
        IN  /\ pct.some
            /\ pct.num * 2 * n = 100 * (2 * n - m + 1) * pct.den
            /\ m = 1 <=> pct.num = 100 * pct.den

\* C12 (as the claim has it): the percentile is 100 whenever the value at the
\* timestamp asked about is the maximum of the metric over the series, also
\* when several periods share that maximum.
C12_MaximumIsTop ==
    (Answered /\ AskedIsMaximum) =>
        /\ precedence_result.row.percentile.some
        /\ precedence_result.row.percentile.num = 100 * precedence_result.row.percentile.den

\* precedence answers about the one period holding the maximum, in a series
\* with a lower value and a NaN.
C12_Witness ==
    /\ Answered
    /\ AskedIsMaximum
    /\ Cardinality(Sharing) = 1
    /\ \E i \in Numbers : ValueAt(i) < ValueAt(Asked)
    /\ Numbers # 1..Len(precedence_df.rows)

\* C13: the rank precedence returns is a descending dense rank: 1 for the
\* highest value, the same whole rank for equal values, the next rank for the
\* next lower value; every period holding the maximum has rank 1.
C13_DenseRank ==
    (Answered /\ Asked \in Numbers) =>
        LET above == {ValueAt(i) : i \in {j \in Numbers : ValueAt(j) > ValueAt(Asked)}}
        IN  /\ precedence_result.row.rank.some
            /\ precedence_result.row.rank.num =
                  (Cardinality(above) + 1) * precedence_result.row.rank.den

\* The periods strictly before the timestamp asked about.
Earlier == {i \in 1..Len(precedence_df.rows) :
               precedence_df.rows[i].t < precedence_result.row.timestamp}

\* The earlier periods whose value is at least the value asked about.
EarlierAsHigh ==
    {i \in Earlier \cap Numbers : Asked \in Numbers /\ ValueAt(i) >= ValueAt(Asked)}

\* C14: pct_better_periods_prior is the share, among the periods strictly
\* before the timestamp asked about, of those whose value is at least the
\* value asked about; it is 0 when the timestamp is the first entry of the
\* series, and the period asked about is never one of those counted.
C14_PriorPeriodsOnly ==
    Answered =>
        LET pct == precedence_result.row.pct_better_periods_prior
        IN  /\ pct.some
            /\ Asked \notin Earlier
            /\ Earlier = {} => pct.num = 0
            /\ Earlier # {} =>
                  pct.num * Cardinality(Earlier) = Cardinality(EarlierAsHigh) * pct.den

\* precedence answers about a period that is not the first: of the periods
\* before it one is as high and one is lower.
C14_Witness ==
    /\ Answered
    /\ Asked \in Numbers
    /\ EarlierAsHigh # {}
    /\ \E i \in Earlier \cap Numbers : ValueAt(i) < ValueAt(Asked)

\* What precedence was asked about cannot be answered: the metric is no
\* column, the index is no DatetimeIndex, or the timestamp (the last entry of
\* the index when none was given) is not in the index.
Unanswerable ==
    \/ precedence_call.metric \notin precedence_df.columns
    \/ precedence_df.index # "DatetimeIndex"
    \/ resolve(precedence_df, precedence_call.timestamp) \notin index(precedence_df)

\* C15: precedence fails with an error and returns nothing whenever the
\* metric is not a column of the series, the index is not a datetime index or
\* the resolved timestamp is not in the index; and whether it fails or not,
\* the series it was given is left as it was.
C15_QueryErrors ==
    [][precedence_pc' = "returned" =>
          /\ precedence_df' = precedence_df
          /\ Unanswerable' =>
                /\ precedence_result'.res = "ValueError"
                /\ precedence_result'.row = NoRow
      ]_vars

\* precedence was asked, about a series of three periods with all its
\* columns, for a day between the first and the last that the index skips,
\* and it raised.
C15_Witness ==
    /\ precedence_pc = "returned"
    /\ precedence_result.res = "ValueError"
    /\ precedence_call.metric = "delta_pledge"
    /\ precedence_df.columns = AllColumns
    /\ precedence_df.index = "DatetimeIndex"
    /\ Len(precedence_df.rows) = 3
    /\ precedence_call.timestamp.k = "timestamp"
    /\ precedence_call.timestamp.v \notin index(precedence_df)
    /\ precedence_call.timestamp.v > precedence_df.rows[1].t
    /\ precedence_call.timestamp.v < precedence_df.rows[3].t

\* ------------------------------------------------------------------------
\* Properties of the expansion of the version intervals (loader.py)
\* ------------------------------------------------------------------------

\* parse_to_long has returned the long frame.
Expanded == versions_pc \in {"expanded", "constructed"} /\ versions_long.some

\* The days from the start of interval i to its end.
DaysOf(i) == versions[i].date_end[1] - versions[i].date_start[1]

\* One row per calendar day of the closed range of interval i, with the
\* labels of the interval and the days counted from 0.
EveryDayOf(i) ==
    [k \in 1..(DaysOf(i) + 1) |->
        [datetime_utc |-> <<versions[i].date_start[1] + k - 1, 0>>,
         major |-> versions[i].major,
         patch_count |-> versions[i].patch_count,
         days_since_current_patch_launch |-> k - 1]]

\* The rows of the long frame that come before those of interval i.
RowsBefore(i) == Len(concat([j \in 1..(i - 1) |-> EveryDayOf(j)]))

\* C16: every interval with date_start <= date_end is expanded into exactly
\* (date_end - date_start in days) + 1 rows, one per calendar day of the
\* closed range, each with the labels of the interval and with
\* days_since_current_patch_launch 0, 1, 2, ... in the order of the days.
C16_ClosedRangeExpansion ==
    Expanded =>
        /\ Len(versions_long.v) = RowsBefore(Len(versions) + 1)
        /\ \A i \in 1..Len(versions) :
              DaysOf(i) >= 0 =>
                  SubSeq(versions_long.v, RowsBefore(i) + 1, RowsBefore(i + 1))
                      = EveryDayOf(i)

\* The interval from 2020-01-01 to 2020-01-03 has been expanded: three rows.
C16_Witness ==
    /\ Expanded
    /\ \E i \in 1..Len(versions) :
          /\ versions[i].date_start = <<0, 0>>
          /\ versions[i].date_end = <<2, 0>>
          /\ RowsBefore(i + 1) - RowsBefore(i) = 3
          /\ versions_long.v[RowsBefore(i) + 3].days_since_current_patch_launch = 2

\* Two intervals that follow each other in the order of their starts have a
\* day in common.
Overlapping ==
    \E i \in 1..(Len(versions) - 1) :
        /\ DaysOf(i) >= 0
        /\ DaysOf(i + 1) >= 0
        /\ versions[i + 1].date_start[1] <= versions[i].date_end[1]

\* C17: when two intervals overlap once sorted by their start, an error is
\* logged, nothing fails, and every interval is still expanded as given, each
\* into all the days of its own closed range.
C17_OverlapIsLogged ==
    (versions_pc \in {"expanded", "constructed", "failed"} /\ Overlapping) =>
        /\ versions_errors > 0
        /\ versions_pc # "failed"
        /\ versions_long = Some(concat([i \in 1..Len(versions) |-> EveryDayOf(i)]))

\* ------------------------------------------------------------------------
\* Properties of the merged series (combined_signals.py)
\* ------------------------------------------------------------------------

\* C2: for every transaction, annotation and version series, the last
\* timestamp of the series get_time_series returns is never later than the
\* last timestamp of the transaction series, even when the annotations or the
\* versions go further.
C2_MergedEndsWithTransactions ==
    (merge_pc = "done" /\ merged.res = "ok") =>
        \A k \in 1..Len(merged.series) :
            merged.series[k].t <= Max(transactions_series)

\* A merged series is returned although the annotations and the versions go
\* further than the transactions.
C2_Witness ==
    /\ merge_pc = "done"
    /\ merged.res = "ok"
    /\ merged.series # <<>>
    /\ Max(calendar_events) > Max(transactions_series)
    /\ Max(game_versions) > Max(transactions_series)

\* C26: whenever the outer join brought in timestamps later than the last
\* timestamp of the transaction series, get_time_series logs its warning.
C26_LateTimestampsAreReported ==
    (/\ merge_pc = "done"
     /\ merged.res = "ok"
     /\ Max(calendar_events \cup game_versions) > Max(transactions_series))
        => warned

\* C27: every row of the merged series has a delta_pledge; the periods of
\* the annotations and the versions before the first transaction period are
\* not in it, and its first timestamp is not earlier than the first of the
\* transaction series.
C27_EveryRowHasDelta ==
    (merge_pc = "done" /\ merged.res = "ok") =>
        \A k \in 1..Len(merged.series) :
            /\ merged.series[k].delta_pledge.some
            /\ merged.series[k].t >= Min(transactions_series)

\* A merged series is returned although the annotations or the versions begin
\* before the transactions.
C27_Witness ==
    /\ merge_pc = "done"
    /\ merged.res = "ok"
    /\ merged.series # <<>>
    /\ Min(calendar_events \cup game_versions) < Min(transactions_series)


\* ------------------------------------------------------------------------
\* Properties of the statistics (loader.py, utils.py)
\* ------------------------------------------------------------------------

\* C28: total_year_on_year of main_statistics is the in-year total of the
\* previous year at the same day of the year and the same hour as the latest
\* record.
C28_SameHourLastYear ==
    (statistics_pc = "done" /\ statistics.res = "ok") =>
        \E k \in 1..Len(hourly) :
            /\ index_year(hourly[k].t) = index_year(hourly[Len(hourly)].t) - 1
            /\ index_dayofyear(hourly[k].t) = index_dayofyear(hourly[Len(hourly)].t)
            /\ index_hour(hourly[k].t) = index_hour(hourly[Len(hourly)].t)
            /\ statistics.pledges.total_year_on_year = hourly[k].total_pledge_in_year
            /\ statistics.citizens.total_year_on_year = hourly[k].total_citizens_in_year

\* ------------------------------------------------------------------------
\* Properties of the refresh gate (data.py)
\* ------------------------------------------------------------------------

\* This step initialises session s / refreshes session s with another key.
Initialises(s) == ~session_state[s].some /\ session_state'[s].some

Refreshes(s) == session_state[s].some /\ session_state'[s] # session_state[s]

\* The gate at an initialisation: check_and_set returns True only if more than
\* 45 minutes have passed since last_refresh_time, and then sets it to now;
\* when it returns False last_refresh_time is unchanged.  An initialisation
\* less than 45 minutes after the last refresh uses the key installed then,
\* and loads nothing.
GateAtInitialisation ==
    \A s \in Sessions :
        Initialises(s) =>
            /\ returned' => clock - last_refresh_time > delay /\ last_refresh_time' = clock
            /\ ~returned' => last_refresh_time' = last_refresh_time
            /\ clock - last_refresh_time < delay =>
                  /\ session_state'[s] = Some(last_refresh_time)
                  /\ cache_resource' = cache_resource

\* C30 (as the code has it): the gate at an initialisation, and
\* refresh_session_state installs the reading of the clock as the key: a new
\* key, and a new load, exactly when the clock has advanced since
\* last_refresh_time was set.
C30_RefreshGate ==
    [][/\ GateAtInitialisation
       /\ \A s \in Sessions :
             Refreshes(s) =>
                /\ last_refresh_time' = clock
                /\ session_state'[s] = Some(clock)
                /\ cache_resource' = cache_resource \cup {clock}
                /\ clock \notin cache_resource <=> clock > last_refresh_time
      ]_vars

\* C30 (as the claim has it): the gate at an initialisation, and
\* refresh_session_state always installs a new key.
C30_RefreshAlwaysNewKey ==
    [][/\ GateAtInitialisation
       /\ \A s \in Sessions :
             Refreshes(s) => session_state'[s].v \notin cache_resource
      ]_vars

\* Two sessions were initialised, the second exactly 45 minutes after the
\* refresh of the first: check_and_set returned False and both hold the same
\* key.
C30_Witness ==
    /\ ~returned
    /\ clock - last_refresh_time = delay
    /\ \A s \in Sessions : session_state[s] = Some(last_refresh_time)

====
